---- MODULE Spec2Model ----
(***************************************************************************)
(* Model of the proxyFirewall control plane:                               *)
(*   - the access-log ingestion command                                    *)
(*       Aplicaciones/events/management/commands/import_squid_accesslog.py *)
(*   - the soft-delete rule repository                                     *)
(*       Aplicaciones/control/models.py, Aplicaciones/control/views.py     *)
(*                                                                         *)
(* The log file is a sequence of chunks.  A chunk stands for a run of      *)
(* bytes of one class; the newline is a chunk of its own, so that          *)
(* seek/readline/tell work on positions exactly as in the code.            *)
(***************************************************************************)
EXTENDS Integers, Sequences, FiniteSets, TLC

\* ------------------------------------------------------------ bounds
MaxFile == 6         \* chunks the proxy writes in one behaviour
MaxRot == 1         \* log rotations
MaxFaults == 2      \* crashes and environment failures injected in one behaviour
Limit == 2         \* --limit of the command (5000 by default), scaled down

Runners == {1, 2}   \* processes that can run the command

\* ------------------------------------------------------------ log text
NL == "nl"          \* the newline that ends a record
TS == "T"           \* digits of the integer part of the timestamp
REC == "r"          \* rest of a ten-field record: ".123 150 10.0.0.5 TCP_MISS/200 512 GET http://a/ - H/- t/h"
RECBADPORT == "p"   \* rest of a ten-field record whose URL is http://a:99999/
JUNK == "x"         \* text without the ten-field shape

OkLine     == <<TS, REC, NL>>
PoisonLine == <<TS, RECBADPORT, NL>>
JunkLine   == <<JUNK, NL>>

\* the whole records a proxy appends, one write each
ProxyLines == {OkLine, PoisonLine, JunkLine}

VARIABLES
    \* durable state
    logf,          \* content of --logfile
    gen,           \* how often the log file was replaced (rotation)
    wrote,         \* chunks the proxy has written so far, over all log files
    statefile,     \* content of --statefile
    stateDir,      \* whether dirname(statefile) exists
    requests,      \* table requests: committed rows, in insertion order
    http_method,   \* table http_method: committed rows
    url,           \* table url: committed rows
    \* one run of Command.handle per runner
    pc,            \* position of the runner in handle()
    offset, new_offset, lines, idx, inserted, skipped,
    txReq, txMeth, txUrl,   \* rows written inside transaction.atomic(), not yet committed
    rdGen,                  \* generation of the log file the runner read
    st_gen,                 \* generation of the log file the runner stat'ed
    st_size,                \* st.st_size of the log file
    base,                   \* Len(requests) when the run started
    last,                   \* how the runner's latest ended run went
    faults,        \* failures injected so far
    \* rule repository
    rules,         \* table rule
    wpc, wop, wres, \* writers of the rule table: position, operation, outcome
    nops,          \* write operations started so far
    \* one call of validate_rule_condition
    condition,     \* the document passed to the validator
    raised,        \* "none" before the call, then "ok" or the error raised
    \* one log line taken through the loop body of handle()
    status,        \* the status token of the line, a string of characters
    url_raw,       \* the URL token of the line, a string of characters
    event,         \* the fields handed to Request.objects.create, once computed
    \* one request at a time through rule_create / rule_edit
    vtable,        \* table rule as this request and its rivals leave it
    vreq,          \* the form posted and the instance built from it
    vpc,           \* position of the request in the view
    vexc,          \* the exception the view caught, if any
    vmsg           \* the message the view reports

ingestDurable == <<logf, gen, wrote, statefile, stateDir, requests, http_method, url>>
runLocals == <<pc, offset, new_offset, lines, idx, inserted, skipped,
               txReq, txMeth, txUrl, rdGen, st_gen, st_size, base>>
runVars == <<runLocals, last>>
ingestVars == <<ingestDurable, runVars, faults>>
ruleVars == <<rules, wpc, wop, wres, nops>>
docVars == <<condition, raised>>
parseVars == <<status, url_raw, event>>
viewVars == <<vtable, vreq, vpc, vexc, vmsg>>
otherVars == <<docVars, parseVars, viewVars>>
vars == <<ingestVars, ruleVars, otherVars>>

\* ------------------------------------------------------------ file reading
\* f.readline() at position pos (0-based): the position after the line, i.e.
\* after the first newline behind pos, or the end of the file.
RECURSIVE LineEnd(_, _)
LineEnd(f, pos) ==
    IF pos >= Len(f) THEN Len(f)
    ELSE IF f[pos + 1] = NL THEN pos + 1
    ELSE LineEnd(f, pos + 1)

\* line.strip(): the text of the line without its newline
Strip(s) == IF Len(s) > 0 /\ s[Len(s)] = NL THEN SubSeq(s, 1, Len(s) - 1) ELSE s

\* the loop `for _ in range(limit): line = f.readline(); if not line: break`
RECURSIVE ReadLines(_, _, _)
ReadLines(f, pos, n) ==
    IF n <= 0 \/ pos >= Len(f) THEN <<>>
    ELSE LET e == LineEnd(f, pos)
         IN  <<[start |-> pos, end |-> e, text |-> Strip(SubSeq(f, pos + 1, e))]>>
             \o ReadLines(f, e, n - 1)

\* a position taken at the end of the file instead of behind the last line read
TellAtEnd(f, pos, n) == Len(f)

\* f.tell() after the loop
Tell(f, pos, n) ==
    LET ls == ReadLines(f, pos, n)
    IN  IF ls = <<>> THEN pos ELSE ls[Len(ls)].end

\* a pattern that matches every line
MatchesAll(text) == TRUE

\* SQUID_RE.match(line): digits, a dot, digits, then the nine other fields;
\* the pattern is anchored at the start only.
SquidMatch(text) ==
    \E k \in 1..Len(text) :
        /\ \A i \in 1..k : text[i] = TS
        /\ k < Len(text)
        /\ text[k + 1] \in {REC, RECBADPORT}

\* parse_url(url_raw): urlparse(raw).port raises ValueError for a port that is
\* no number or is out of range
ParseUrlRaises(text) ==
    \E k \in 1..Len(text) - 1 :
        /\ \A i \in 1..k : text[i] = TS
        /\ text[k + 1] = RECBADPORT

\* the content of the state file: no file, an empty file (just opened for
\* writing), or the text of an integer
SFAbsent == [kind |-> "absent", val |-> 0]
SFEmpty == [kind |-> "empty", val |-> 0]

\* text that int() does not take: letters, "1.5", undecodable bytes
SFGarbage == [kind |-> "text", val |-> 0]

\* sf.write(str(new_offset))
SFText(n) == [kind |-> "int", val |-> n]

\* lines 65-70: offset = int(open(statefile).read().strip() or "0") if the
\* file exists, else 0
StoredOffset(sf) == IF sf.kind = "int" THEN sf.val ELSE 0

\* a resume without the rotation check
ResumeNoReset(off, size) == off

\* `if offset > st.st_size: offset = 0`
ResumeOffset(off, size) == IF off > size THEN 0 ELSE off

\* ------------------------------------------------------------ tables
\* timezone.now() of a soft delete, and the NULL of a row that was never deleted
NOW == "now"
NULL == "null"

\* every record of the modelled log carries method GET and URL http://a/
MethodOf(text) == "GET"
UrlOf(text) == "http://a:80/"

\* objects.get_or_create(key): the default manager sees live rows only; the
\* run sees the committed rows and the rows of its own transaction
HasLive(table, pending, key) ==
    \/ \E i \in 1..Len(table) : table[i].key = key /\ ~table[i].is_delete
    \/ \E i \in 1..Len(pending) : pending[i].key = key

\* a row as Model.objects.create leaves it: is_delete False, deleted_at NULL
NewRow(key) == [key |-> key, is_delete |-> FALSE, deleted_at |-> NULL]

\* a create without the get before it
CreateAlways(table, pending, key) == Append(pending, NewRow(key))

GetOrCreate(table, pending, key) ==
    IF HasLive(table, pending, key) THEN pending
    ELSE Append(pending, NewRow(key))

\* a write-back of the position the run started from
PersistStartOffset(off, noff) == off

\* a state file written inside the atomic block, before the commit
StateWriteInsideTx == "tx"

\* line 167: sf.write(str(new_offset)) writes the position after the last line read
OffsetToPersist(off, noff) == noff

\* line 166 stands behind the `with transaction.atomic()` block: the state
\* file is opened once the block has been left, i.e. after the commit
StateWriteAt == "committed"

\* without a transaction the rows inserted before the exception stay
NoRollback(committed, pending) == committed \o pending

\* the rows that are stored once an exception has left `with transaction.atomic()`
AfterRollback(committed, pending) == committed

\* the rows that are stored once `with transaction.atomic()` has been left normally
AfterCommit(committed, pending) == committed \o pending

\* ------------------------------------------------------------ initial state
NoRun == [result |-> "none", offset |-> 0, new_offset |-> 0, gen |-> 0, size |-> 0, read |-> 0]

InitRun ==
    /\ logf = <<>>
    /\ gen = 0
    /\ wrote = 0
    /\ stateDir = FALSE
    /\ requests = <<>>
    /\ http_method = <<>>
    /\ url = <<>>
    /\ pc = [r \in Runners |-> "idle"]
    /\ offset = [r \in Runners |-> 0]
    /\ new_offset = [r \in Runners |-> 0]
    /\ lines = [r \in Runners |-> <<>>]
    /\ idx = [r \in Runners |-> 1]
    /\ inserted = [r \in Runners |-> 0]
    /\ skipped = [r \in Runners |-> 0]
    /\ txReq = [r \in Runners |-> <<>>]
    /\ txMeth = [r \in Runners |-> <<>>]
    /\ txUrl = [r \in Runners |-> <<>>]
    /\ rdGen = [r \in Runners |-> 0]
    /\ st_size = [r \in Runners |-> 0]
    /\ st_gen = [r \in Runners |-> 0]
    /\ base = [r \in Runners |-> 0]
    /\ last = [r \in Runners |-> NoRun]
    /\ faults = 0

\* a fresh installation: no state file yet
InitIngest == statefile = SFAbsent /\ InitRun

\* ------------------------------------------------------------ the proxy
\* the proxy appends one whole record to the log
AppendLine ==
    /\ \E l \in ProxyLines :
          /\ wrote + Len(l) <= MaxFile
          /\ logf' = logf \o l
          /\ wrote' = wrote + Len(l)
    /\ UNCHANGED <<gen, statefile, stateDir, requests, http_method, url,
                   runVars, faults, ruleVars, otherVars>>

\* the text of f behind its last newline: the record the proxy is writing
RECURSIVE Unfinished(_)
Unfinished(f) ==
    IF f = <<>> \/ f[Len(f)] = NL THEN <<>>
    ELSE Append(Unfinished(SubSeq(f, 1, Len(f) - 1)), f[Len(f)])

\* the proxy's write buffer is flushed in the middle of a record: the log
\* ends with the start of a record, its newline not yet written
AppendFragment ==
    /\ Unfinished(logf) = <<>>
    /\ \E l \in ProxyLines : \E k \in 1..(Len(l) - 1) :
          /\ wrote + Len(l) <= MaxFile
          /\ logf' = logf \o SubSeq(l, 1, k)
          /\ wrote' = wrote + k
    /\ UNCHANGED <<gen, statefile, stateDir, requests, http_method, url,
                   runVars, faults, ruleVars, otherVars>>

\* the proxy writes the rest of the record it had begun
CompleteLine ==
    /\ Unfinished(logf) # <<>>
    /\ \E l \in ProxyLines :
          /\ Len(Unfinished(logf)) < Len(l)
          /\ SubSeq(l, 1, Len(Unfinished(logf))) = Unfinished(logf)
          /\ logf' = logf \o SubSeq(l, Len(Unfinished(logf)) + 1, Len(l))
          /\ wrote' = wrote + Len(l) - Len(Unfinished(logf))
    /\ UNCHANGED <<gen, statefile, stateDir, requests, http_method, url,
                   runVars, faults, ruleVars, otherVars>>

\* logrotate: the log file is replaced by a new, empty one
Rotate ==
    /\ gen < MaxRot
    /\ logf # <<>>
    /\ logf' = <<>>
    /\ gen' = gen + 1
    /\ UNCHANGED <<wrote, statefile, stateDir, requests, http_method, url,
                   runVars, faults, ruleVars, otherVars>>

\* ------------------------------------------------------------ Command.handle
\* the record of a run: its outcome and, for the outcomes that are compared
\* with the next run, the window it read and the file it found
Windowed == {"success", "noop", "exc_storage"}
RunRecord(r, res, off, noff) ==
    IF res \in Windowed
    THEN [result |-> res, offset |-> off, new_offset |-> noff,
          gen |-> st_gen[r], size |-> st_size[r], read |-> rdGen[r]]
    ELSE [result |-> res, offset |-> 0, new_offset |-> 0, gen |-> 0, size |-> 0, read |-> 0]

\* handle() returns or raises with outcome res: its locals are gone, and what
\* the operator saw of the run is kept in last
Ends(r, res, off, noff) ==
    /\ pc' = [pc EXCEPT ![r] = "idle"]
    /\ last' = [last EXCEPT ![r] = RunRecord(r, res, off, noff)]
    /\ st_gen' = [st_gen EXCEPT ![r] = 0]
    /\ offset' = [offset EXCEPT ![r] = 0]
    /\ new_offset' = [new_offset EXCEPT ![r] = 0]
    /\ lines' = [lines EXCEPT ![r] = <<>>]
    /\ idx' = [idx EXCEPT ![r] = 1]
    /\ inserted' = [inserted EXCEPT ![r] = 0]
    /\ skipped' = [skipped EXCEPT ![r] = 0]
    /\ txReq' = [txReq EXCEPT ![r] = <<>>]
    /\ txMeth' = [txMeth EXCEPT ![r] = <<>>]
    /\ txUrl' = [txUrl EXCEPT ![r] = <<>>]
    /\ rdGen' = [rdGen EXCEPT ![r] = 0]
    /\ st_size' = [st_size EXCEPT ![r] = 0]
    /\ base' = [base EXCEPT ![r] = 0]

\* lines 61-63: os.makedirs(state_dir, exist_ok=True) raises
MakedirsFails(r) ==
    /\ pc[r] = "idle"
    /\ ~stateDir
    /\ faults < MaxFaults
    /\ faults' = faults + 1
    /\ Ends(r, "exc_makedirs", 0, 0)
    /\ UNCHANGED <<ingestDurable, ruleVars, otherVars>>

\* lines 61-79: os.stat(logfile) raises FileNotFoundError: reported, return
StatNoFile(r) ==
    /\ pc[r] = "idle"
    /\ faults < MaxFaults
    /\ faults' = faults + 1
    /\ stateDir' = TRUE
    /\ Ends(r, "reported_missing", StoredOffset(statefile), 0)
    /\ UNCHANGED <<logf, gen, wrote, statefile, requests, http_method, url, ruleVars, otherVars>>

\* lines 61-82: os.stat(logfile) raises PermissionError (a directory of the
\* path cannot be searched): reported, return
StatNoPerm(r) ==
    /\ pc[r] = "idle"
    /\ faults < MaxFaults
    /\ faults' = faults + 1
    /\ stateDir' = TRUE
    /\ Ends(r, "reported_noperm", StoredOffset(statefile), 0)
    /\ UNCHANGED <<logf, gen, wrote, statefile, requests, http_method, url, ruleVars, otherVars>>

\* a command that starts only while no other run of it is under way
ResumeExclusive(r) ==
    /\ pc[r] = "idle"
    /\ \A q \in Runners \ {r} : pc[q] = "idle"
    /\ stateDir' = TRUE
    /\ offset' = [offset EXCEPT ![r] = ResumeOffset(StoredOffset(statefile), Len(logf))]
    /\ base' = [base EXCEPT ![r] = Len(requests)]
    /\ st_gen' = [st_gen EXCEPT ![r] = gen]
    /\ st_size' = [st_size EXCEPT ![r] = Len(logf)]
    /\ pc' = [pc EXCEPT ![r] = "resumed"]
    /\ UNCHANGED <<rdGen, logf, gen, wrote, statefile, requests, http_method, url,
                   new_offset, lines, idx, inserted, skipped, txReq, txMeth, txUrl,
                   last, faults, ruleVars, otherVars>>

\* lines 61-76: the state directory is made, the offset loaded, the file stat'ed
Resume(r) ==
    /\ pc[r] = "idle"
    /\ stateDir' = TRUE
    /\ offset' = [offset EXCEPT ![r] = ResumeOffset(StoredOffset(statefile), Len(logf))]
    /\ base' = [base EXCEPT ![r] = Len(requests)]
    /\ st_gen' = [st_gen EXCEPT ![r] = gen]
    /\ st_size' = [st_size EXCEPT ![r] = Len(logf)]
    /\ pc' = [pc EXCEPT ![r] = "resumed"]
    /\ UNCHANGED <<rdGen, logf, gen, wrote, statefile, requests, http_method, url,
                   new_offset, lines, idx, inserted, skipped, txReq, txMeth, txUrl,
                   last, faults, ruleVars, otherVars>>

\* line 84: open(logfile, "r") raises PermissionError (the file itself is not
\* readable; os.stat does not need read permission on it): not caught
OpenNoPerm(r) ==
    /\ pc[r] = "resumed"
    /\ faults < MaxFaults
    /\ faults' = faults + 1
    /\ Ends(r, "exc_open", offset[r], 0)
    /\ UNCHANGED <<ingestDurable, ruleVars, otherVars>>

\* lines 84-85: f.seek(offset) with a negative offset raises ValueError
\* ("negative seek position"): not caught
SeekRaises(r) ==
    /\ pc[r] = "resumed"
    /\ offset[r] < 0
    /\ Ends(r, "exc_seek", offset[r], 0)
    /\ UNCHANGED <<ingestDurable, faults, ruleVars, otherVars>>

\* lines 84-96: seek, read up to limit lines, tell; no lines: report and return
Read(r) ==
    /\ pc[r] = "resumed"
    /\ offset[r] >= 0
    /\ LET ls == ReadLines(logf, offset[r], Limit)
           noff == Tell(logf, offset[r], Limit)
       IN  IF ls = <<>>
           THEN /\ last' = [last EXCEPT ![r] = RunRecord(r, "noop", offset[r], noff)]
                /\ pc' = [pc EXCEPT ![r] = "idle"]
                /\ offset' = [offset EXCEPT ![r] = 0]
                /\ base' = [base EXCEPT ![r] = 0]
                /\ st_gen' = [st_gen EXCEPT ![r] = 0]
                /\ st_size' = [st_size EXCEPT ![r] = 0]
                /\ UNCHANGED <<lines, new_offset, rdGen>>
           ELSE /\ lines' = [lines EXCEPT ![r] = ls]
                /\ new_offset' = [new_offset EXCEPT ![r] = noff]
                /\ rdGen' = [rdGen EXCEPT ![r] = gen]
                /\ pc' = [pc EXCEPT ![r] = "tx"]
                /\ UNCHANGED <<offset, base, st_gen, st_size, last>>
    /\ UNCHANGED <<ingestDurable, idx, inserted, skipped,
                   txReq, txMeth, txUrl, faults, ruleVars, otherVars>>

\* lines 102-106: a line that SQUID_RE does not match is counted and skipped
SkipLine(r) ==
    /\ pc[r] = "tx"
    /\ idx[r] <= Len(lines[r])
    /\ ~SquidMatch(lines[r][idx[r]].text)
    /\ skipped' = [skipped EXCEPT ![r] = @ + 1]
    /\ idx' = [idx EXCEPT ![r] = @ + 1]
    /\ UNCHANGED <<ingestDurable, pc, offset, new_offset, lines, inserted,
                   txReq, txMeth, txUrl, rdGen, st_gen, st_size, base, last, faults, ruleVars, otherVars>>

\* lines 108-164: a matched line is classified, its method and URL rows are
\* got or created, and one Request row is created, all inside the transaction
StoreLine(r) ==
    /\ pc[r] = "tx"
    /\ idx[r] <= Len(lines[r])
    /\ LET l == lines[r][idx[r]]
       IN  /\ SquidMatch(l.text)
           /\ ~ParseUrlRaises(l.text)
           /\ txMeth' = [txMeth EXCEPT ![r] = GetOrCreate(http_method, @, MethodOf(l.text))]
           /\ txUrl' = [txUrl EXCEPT ![r] = GetOrCreate(url, @, UrlOf(l.text))]
           /\ txReq' = [txReq EXCEPT ![r] =
                  Append(@, [gen |-> rdGen[r], start |-> l.start, end |-> l.end])]
    /\ inserted' = [inserted EXCEPT ![r] = @ + 1]
    /\ idx' = [idx EXCEPT ![r] = @ + 1]
    /\ UNCHANGED <<ingestDurable, pc, offset, new_offset, lines, skipped,
                   rdGen, st_gen, st_size, base, last, faults, ruleVars, otherVars>>

\* lines 139-141: parse_url raises ValueError on a matched line; the exception
\* leaves the atomic block (rollback) and handle()
LineRaises(r) ==
    /\ pc[r] = "tx"
    /\ idx[r] <= Len(lines[r])
    /\ SquidMatch(lines[r][idx[r]].text)
    /\ ParseUrlRaises(lines[r][idx[r]].text)
    /\ requests' = AfterRollback(requests, txReq[r])
    /\ http_method' = AfterRollback(http_method, txMeth[r])
    /\ url' = AfterRollback(url, txUrl[r])
    /\ Ends(r, "exc_line", offset[r], new_offset[r])
    /\ UNCHANGED <<logf, gen, wrote, statefile, stateDir, faults, ruleVars, otherVars>>

\* lines 139-163 and the commit at the end of the block: the database raises
\* while a row of a matched line is inserted or while the transaction commits
StorageFails(r) ==
    /\ pc[r] = "tx"
    /\ \/ idx[r] > Len(lines[r])
       \/ /\ idx[r] <= Len(lines[r])
          /\ SquidMatch(lines[r][idx[r]].text)
          /\ ~ParseUrlRaises(lines[r][idx[r]].text)
    /\ faults < MaxFaults
    /\ faults' = faults + 1
    /\ requests' = AfterRollback(requests, txReq[r])
    /\ http_method' = AfterRollback(http_method, txMeth[r])
    /\ url' = AfterRollback(url, txUrl[r])
    /\ Ends(r, "exc_storage", offset[r], new_offset[r])
    /\ UNCHANGED <<logf, gen, wrote, statefile, stateDir, ruleVars, otherVars>>

\* line 101, leaving the block: the transaction commits
Commit(r) ==
    /\ pc[r] = "tx"
    /\ idx[r] > Len(lines[r])
    /\ requests' = AfterCommit(requests, txReq[r])
    /\ http_method' = AfterCommit(http_method, txMeth[r])
    /\ url' = AfterCommit(url, txUrl[r])
    /\ pc' = [pc EXCEPT ![r] = "committed"]
    /\ UNCHANGED <<logf, gen, wrote, statefile, stateDir, offset, new_offset, lines,
                   idx, inserted, skipped, txReq, txMeth, txUrl, rdGen, st_gen, st_size, base,
                   last, faults, ruleVars, otherVars>>

\* line 166: open(statefile, "w") raises (the file cannot be written)
OpenStateFails(r) ==
    /\ pc[r] = "committed"
    /\ faults < MaxFaults
    /\ faults' = faults + 1
    /\ Ends(r, "exc_statefile", offset[r], new_offset[r])
    /\ UNCHANGED <<ingestDurable, ruleVars, otherVars>>

\* line 166: open(statefile, "w") creates or truncates the file
OpenState(r) ==
    /\ pc[r] = StateWriteAt
    /\ statefile' = SFEmpty
    /\ pc' = [pc EXCEPT ![r] = "writing"]
    /\ UNCHANGED <<logf, gen, wrote, stateDir, requests, http_method, url, offset,
                   new_offset, lines, idx, inserted, skipped, txReq, txMeth, txUrl,
                   rdGen, st_gen, st_size, base, last, faults, ruleVars, otherVars>>

\* lines 167-171: the offset is written, the file closed, the counts reported
WriteOffset(r) ==
    /\ pc[r] = "writing"
    /\ statefile' = SFText(OffsetToPersist(offset[r], new_offset[r]))
    /\ Ends(r, "success", offset[r], new_offset[r])
    /\ UNCHANGED <<logf, gen, wrote, stateDir, requests, http_method, url, faults, ruleVars, otherVars>>

\* the process is killed in the middle of a run: an open transaction is rolled back
Crash(r) ==
    /\ pc[r] # "idle"
    /\ faults < MaxFaults
    /\ faults' = faults + 1
    /\ Ends(r, "crash", offset[r], new_offset[r])
    /\ UNCHANGED <<ingestDurable, ruleVars, otherVars>>

RunStep(r) ==
    \/ Resume(r)
    \/ Read(r)
    \/ SkipLine(r)
    \/ StoreLine(r)
    \/ LineRaises(r)
    \/ Commit(r)
    \/ OpenState(r)
    \/ WriteOffset(r)

RunFault(r) ==
    \/ MakedirsFails(r)
    \/ StatNoFile(r)
    \/ StatNoPerm(r)
    \/ OpenNoPerm(r)
    \/ StorageFails(r)
    \/ OpenStateFails(r)
    \/ Crash(r)

\* the scheduler starts one run at a time: runner 1 is the only one
Sole == CHOOSE r \in Runners : \A q \in Runners : r <= q

\* ------------------------------------------------------------ rule repository
MaxRules == 3       \* rows of the rule table
MaxOps == 4         \* write operations started in one behaviour

Writers == {1, 2}   \* requests that write the rule table at the same time
Policies == {1, 2}
Priorities == {10, 20}

Live(row) == ~row.is_delete

\* a table without the constraint accepts every set of rows
constraint_absent(rows) == TRUE

\* Rule.Meta.constraints: UniqueConstraint(fields=["policy", "priority"],
\* condition=Q(is_delete=False)): what the partial unique index accepts
rule_policy_priority_active_uniq(rows) ==
    \A i, j \in 1..Len(rows) :
        (i # j /\ Live(rows[i]) /\ Live(rows[j]))
            => <<rows[i].policy, rows[i].priority>> # <<rows[j].policy, rows[j].priority>>

\* UniqueConstraint.validate, called by full_clean(): the instance meets the
\* condition and another row that meets it has the same fields
ConstraintViolated(rows, inst) ==
    /\ ~inst.is_delete
    /\ \E i \in 1..Len(rows) :
          /\ i # inst.id
          /\ Live(rows[i])
          /\ rows[i].policy = inst.policy
          /\ rows[i].priority = inst.priority

Row(inst) == [policy |-> inst.policy, priority |-> inst.priority,
              is_delete |-> inst.is_delete, deleted_at |-> inst.deleted_at]

\* Model.save(): INSERT of a new instance, UPDATE of all fields of a loaded one,
\* UPDATE of is_delete and deleted_at alone with update_fields
Written(rows, inst) ==
    IF inst.id = 0 THEN Append(rows, Row(inst))
    ELSE IF inst.kind \in {"delete", "restore"}
         THEN [rows EXCEPT ![inst.id].is_delete = inst.is_delete,
                           ![inst.id].deleted_at = inst.deleted_at]
         ELSE [rows EXCEPT ![inst.id] = Row(inst)]

\* a database that checks the index before the statement, on the rows it
\* already holds, and not on the rows the statement leaves
DbChecksBefore(rows, inst) == rule_policy_priority_active_uniq(rows)

\* the statement is executed only if the table it leaves satisfies the index;
\* otherwise the database raises IntegrityError
DbAccepts(rows, inst) == rule_policy_priority_active_uniq(Written(rows, inst))

NoOp == [kind |-> "none", id |-> 0, policy |-> 0, priority |-> 0,
         is_delete |-> FALSE, deleted_at |-> NULL, overlap |-> FALSE, free |-> FALSE]

PairFree(rows, p, pr) ==
    ~\E i \in 1..Len(rows) : Live(rows[i]) /\ rows[i].policy = p /\ rows[i].priority = pr

OtherBusy(w) == \E v \in Writers : v # w /\ wpc[v] # "idle"

\* an operation that starts while another is under way overlaps it
MarkOverlap(w, op) ==
    [v \in Writers |->
        IF v = w THEN op
        ELSE IF wpc[v] # "idle" THEN [wop[v] EXCEPT !.overlap = TRUE]
        ELSE wop[v]]

InitRules ==
    /\ rules = <<>>
    /\ wpc = [w \in Writers |-> "idle"]
    /\ wop = [w \in Writers |-> NoOp]
    /\ wres = [w \in Writers |-> "none"]
    /\ nops = 0

\* a new Rule instance (no rule_id yet, is_delete False) with the policy and
\* the priority of the request, saved as rule_create saves it
NewRule(w) ==
    /\ wpc[w] = "idle"
    /\ nops < MaxOps
    /\ Len(rules) < MaxRules
    /\ \E p \in Policies, pr \in Priorities :
          wop' = MarkOverlap(w, [kind |-> "create", id |-> 0, policy |-> p, priority |-> pr,
                                 is_delete |-> FALSE, deleted_at |-> NULL,
                                 overlap |-> OtherBusy(w), free |-> PairFree(rules, p, pr)])
    /\ wpc' = [wpc EXCEPT ![w] = "loaded"]
    /\ wres' = [wres EXCEPT ![w] = "running"]
    /\ nops' = nops + 1
    /\ UNCHANGED <<rules, ingestVars, otherVars>>

\* rule_edit: the row is loaded through all_objects (deleted rows too) and its
\* policy and priority are set from the form
EditRule(w) ==
    /\ wpc[w] = "idle"
    /\ nops < MaxOps
    /\ \E i \in 1..Len(rules), p \in Policies, pr \in Priorities :
          wop' = MarkOverlap(w, [kind |-> "update", id |-> i, policy |-> p, priority |-> pr,
                                 is_delete |-> rules[i].is_delete,
                                 deleted_at |-> rules[i].deleted_at,
                                 overlap |-> OtherBusy(w), free |-> PairFree(rules, p, pr)])
    /\ wpc' = [wpc EXCEPT ![w] = "loaded"]
    /\ wres' = [wres EXCEPT ![w] = "running"]
    /\ nops' = nops + 1
    /\ UNCHANGED <<rules, ingestVars, otherVars>>

\* SoftDeleteModel.delete: is_delete = True, deleted_at = now, then save()
DeleteRule(w) ==
    /\ wpc[w] = "idle"
    /\ nops < MaxOps
    /\ \E i \in 1..Len(rules) :
          wop' = MarkOverlap(w, [kind |-> "delete", id |-> i, policy |-> rules[i].policy,
                                 priority |-> rules[i].priority,
                                 is_delete |-> TRUE, deleted_at |-> NOW,
                                 overlap |-> OtherBusy(w), free |-> FALSE])
    /\ wpc' = [wpc EXCEPT ![w] = "loaded"]
    /\ wres' = [wres EXCEPT ![w] = "running"]
    /\ nops' = nops + 1
    /\ UNCHANGED <<rules, ingestVars, otherVars>>

\* SoftDeleteModel.restore: is_delete = False, deleted_at = None, then save()
RestoreRule(w) ==
    /\ wpc[w] = "idle"
    /\ nops < MaxOps
    /\ \E i \in 1..Len(rules) :
          wop' = MarkOverlap(w, [kind |-> "restore", id |-> i, policy |-> rules[i].policy,
                                 priority |-> rules[i].priority,
                                 is_delete |-> FALSE, deleted_at |-> NULL,
                                 overlap |-> OtherBusy(w),
                                 free |-> PairFree(rules, rules[i].policy, rules[i].priority)])
    /\ wpc' = [wpc EXCEPT ![w] = "loaded"]
    /\ wres' = [wres EXCEPT ![w] = "running"]
    /\ nops' = nops + 1
    /\ UNCHANGED <<rules, ingestVars, otherVars>>

\* Rule.save, first half: self.full_clean() validates the constraint against
\* the rows stored now and raises ValidationError
FullCleanRejects(w) ==
    /\ wpc[w] = "loaded"
    /\ ConstraintViolated(rules, wop[w])
    /\ wpc' = [wpc EXCEPT ![w] = "idle"]
    /\ wres' = [wres EXCEPT ![w] = "ValidationError"]
    /\ UNCHANGED <<rules, wop, nops, ingestVars, otherVars>>

FullCleanPasses(w) ==
    /\ wpc[w] = "loaded"
    /\ ~ConstraintViolated(rules, wop[w])
    /\ wpc' = [wpc EXCEPT ![w] = "checked"]
    /\ UNCHANGED <<rules, wop, wres, nops, ingestVars, otherVars>>

\* Rule.save, second half: super().save() executes the INSERT or UPDATE
SaveWrites(w) ==
    /\ wpc[w] = "checked"
    /\ DbAccepts(rules, wop[w])
    /\ rules' = Written(rules, wop[w])
    /\ wpc' = [wpc EXCEPT ![w] = "idle"]
    /\ wres' = [wres EXCEPT ![w] = "saved"]
    /\ UNCHANGED <<wop, nops, ingestVars, otherVars>>

\* the index rejects the statement: IntegrityError, caught by the view
SaveRaises(w) ==
    /\ wpc[w] = "checked"
    /\ ~DbAccepts(rules, wop[w])
    /\ wpc' = [wpc EXCEPT ![w] = "idle"]
    /\ wres' = [wres EXCEPT ![w] = "IntegrityError"]
    /\ UNCHANGED <<rules, wop, nops, ingestVars, otherVars>>

RuleStep(w) ==
    \/ NewRule(w)
    \/ EditRule(w)
    \/ DeleteRule(w)
    \/ RestoreRule(w)
    \/ FullCleanRejects(w)
    \/ FullCleanPasses(w)
    \/ SaveWrites(w)
    \/ SaveRaises(w)

NextRules == \E w \in Writers : RuleStep(w)

\* ============================================================ validator
\* Aplicaciones/control/models.py, validate_rule_condition: the condition is
\* the value Django decodes from the JSON column.  A value carries its Python
\* type; a string is a sequence of characters.
JNull == [t |-> "null"]
JBool(b) == [t |-> "bool", b |-> b]
JInt(n) == [t |-> "int", n |-> n]
JStr(s) == [t |-> "str", s |-> s]
JList(items) == [t |-> "list", items |-> items]
JDict(d) == [t |-> "dict", d |-> d]

\* isinstance(v, int): bool is a subclass of int
IsInt(v) == v.t \in {"int", "bool"}
IntOf(v) == IF v.t = "int" THEN v.n ELSE IF v.b THEN 1 ELSE 0

\* `k in d` and d.get(k) of a dict
HasKey(v, k) == k \in DOMAIN v.d
Get(v, k) == IF HasKey(v, k) THEN v.d[k] ELSE JNull

\* bool(v)
Truthy(v) ==
    CASE v.t = "null" -> FALSE
      [] v.t = "bool" -> v.b
      [] v.t = "int" -> v.n # 0
      [] v.t = "str" -> Len(v.s) > 0
      [] v.t = "list" -> Len(v.items) > 0
      [] v.t = "dict" -> DOMAIN v.d # {}

\* hash(v) raises TypeError for a list and for a dict
Hashable(v) == v.t \notin {"list", "dict"}

\* the characters of the modelled strings
AsciiDigits == {"0", "1", "2", "3", "4", "5", "6", "7", "8", "9"}
ARABIC3 == "U+0663"     \* ARABIC-INDIC DIGIT THREE, a decimal digit for \d
Blank == " "

\* s.strip() is empty
IsBlank(s) == \A i \in 1..Len(s) : s[i] = Blank

\* str(n) of an integer n >= 0
DigitChar(d) ==
    CASE d = 0 -> "0" [] d = 1 -> "1" [] d = 2 -> "2" [] d = 3 -> "3" [] d = 4 -> "4"
      [] d = 5 -> "5" [] d = 6 -> "6" [] d = 7 -> "7" [] d = 8 -> "8" [] d = 9 -> "9"

RECURSIVE IntChars(_)
IntChars(n) ==
    IF n < 10 THEN <<DigitChar(n)>> ELSE Append(IntChars(n \div 10), DigitChar(n % 10))

\* str(value): a string is itself; the text of every other value starts with
\* a character that is no digit (None, True, False, [, {); an integer has
\* no colon
PyStr(v) ==
    CASE v.t = "str" -> v.s
      [] v.t = "null" -> <<"N", "o", "n", "e">>
      [] v.t = "bool" -> IF v.b THEN <<"T", "r", "u", "e">> ELSE <<"F", "a", "l", "s", "e">>
      [] v.t = "int" -> IntChars(v.n)
      [] v.t = "list" -> <<"[", "]">>
      [] v.t = "dict" -> <<"{", "}">>

\* \d of a str pattern matches every Unicode decimal digit
ReDigit(c) == c \in AsciiDigits \cup {ARABIC3}

\* a format check that lets every value through
hhmm_unchecked(value) == TRUE

\* _is_time_hhmm: re.fullmatch(r"([01]\d|2[0-3]):[0-5]\d", str(value))
is_time_hhmm(value) ==
    LET s == PyStr(value)
    IN  /\ Len(s) = 5
        /\ \/ s[1] \in {"0", "1"} /\ ReDigit(s[2])
           \/ s[1] = "2" /\ s[2] \in {"0", "1", "2", "3"}
        /\ s[3] = ":"
        /\ s[4] \in {"0", "1", "2", "3", "4", "5"}
        /\ ReDigit(s[5])

MON == <<"M", "O", "N">>
TUE == <<"T", "U", "E">>
DAYS == {MON, TUE, <<"W", "E", "D">>, <<"T", "H", "U">>, <<"F", "R", "I">>,
         <<"S", "A", "T">>, <<"S", "U", "N">>}
TCP == <<"T", "C", "P">>
UDP == <<"U", "D", "P">>

\* a validator that knows the zones key only
zones_only == {"zones"}

allowed_match_keys == {"zones", "url_categories", "urls", "http_methods", "services"}

\* the errors raised, by the line of their `raise`; TypeError is raised by the
\* interpreter, not by the validator
E_TYPE == "condition debe ser un objeto JSON (dict)."
E_VERSION == "condition.version debe ser 1."
E_NOTE == "condition.note es obligatorio y debe ser texto."
E_MATCH == "condition.match es obligatorio y debe ser un objeto JSON."
E_UNKNOWN == "condition.match contiene claves no permitidas"
E_EMPTY == "condition.match debe tener al menos un criterio"
E_ZONES == "condition.match.zones debe ser lista de zone_id."
E_URLCATS == "condition.match.url_categories debe ser lista de category_id."
E_URLS == "condition.match.urls debe ser lista de strings (dominios/urls)."
E_METHODS == "condition.match.http_methods debe ser lista de strings (GET/POST...)."
E_SERVICES == "condition.match.services debe ser lista."
E_SERVICE_ITEM == "Cada item de services debe ser objeto {protocol, port}."
E_PROTOCOL == "services.protocol debe ser TCP o UDP."
E_PORT == "services.port debe ser entero 1..65535."
E_TIME == "condition.time debe ser un objeto JSON."
E_DAYS_EMPTY == "condition.time.days debe ser lista no vacia."
E_DAYS == "condition.time.days invalido (use MON..SUN)."
E_HHMM == "condition.time.start y end deben tener formato HH:MM."
E_TZ == "condition.time.tz es obligatorio (ej: America/Guayaquil)."
TYPE_ERROR == "TypeError: unhashable type"
OK == "ok"

\* lines 257-264: the checks of one item of match.services
ServiceError(s) ==
    IF s.t # "dict" THEN E_SERVICE_ITEM
    ELSE IF ~Hashable(Get(s, "protocol")) THEN TYPE_ERROR
    ELSE IF ~(Get(s, "protocol").t = "str" /\ Get(s, "protocol").s \in {TCP, UDP}) THEN E_PROTOCOL
    ELSE IF ~IsInt(Get(s, "port")) THEN E_PORT
    ELSE IF IntOf(Get(s, "port")) < 1 \/ IntOf(Get(s, "port")) > 65535 THEN E_PORT
    ELSE OK

\* the loop `for s in match["services"]`: the first item that fails
ServicesError(items) ==
    LET bad == {i \in 1..Len(items) : ServiceError(items[i]) # OK}
    IN  IF bad = {} THEN OK
        ELSE ServiceError(items[CHOOSE i \in bad : \A j \in bad : i <= j])

\* `d not in DAYS` of one item of time.days
DayError(d) ==
    IF ~Hashable(d) THEN TYPE_ERROR
    ELSE IF ~(d.t = "str" /\ d.s \in DAYS) THEN E_DAYS
    ELSE OK

\* any(d not in DAYS for d in days): stops at the first item that is not a
\* day, and raises at the first item that cannot be hashed
DaysError(items) ==
    LET bad == {i \in 1..Len(items) : DayError(items[i]) # OK}
    IN  IF bad = {} THEN OK
        ELSE DayError(items[CHOOSE i \in bad : \A j \in bad : i <= j])

\* lines 241-264: the shapes of the match keys
MatchShapeError(match) ==
    IF HasKey(match, "zones") /\ match.d["zones"].t # "list" THEN E_ZONES
    ELSE IF HasKey(match, "url_categories") /\ match.d["url_categories"].t # "list" THEN E_URLCATS
    ELSE IF HasKey(match, "urls") /\ match.d["urls"].t # "list" THEN E_URLS
    ELSE IF /\ HasKey(match, "http_methods")
            /\ ~( /\ match.d["http_methods"].t = "list"
                  /\ \A i \in 1..Len(match.d["http_methods"].items) :
                        match.d["http_methods"].items[i].t = "str" ) THEN E_METHODS
    ELSE IF HasKey(match, "services") /\ match.d["services"].t # "list" THEN E_SERVICES
    ELSE IF HasKey(match, "services") THEN ServicesError(match.d["services"].items)
    ELSE OK

\* lines 267-286: the time block, a dict
TimeError(t) ==
    IF ~(Get(t, "days").t = "list" /\ Truthy(Get(t, "days"))) THEN E_DAYS_EMPTY
    ELSE IF DaysError(Get(t, "days").items) # OK THEN DaysError(Get(t, "days").items)
    ELSE IF ~is_time_hhmm(Get(t, "start")) \/ ~is_time_hhmm(Get(t, "end")) THEN E_HHMM
    ELSE IF ~(Get(t, "tz").t = "str" /\ ~IsBlank(Get(t, "tz").s)) THEN E_TZ
    ELSE OK

\* validate_rule_condition(condition): OK when it returns, else what it raises
validate_rule_condition(c) ==
    IF c.t # "dict" THEN E_TYPE
    ELSE IF ~( \/ Get(c, "version").t = "int" /\ Get(c, "version").n = 1
               \/ Get(c, "version").t = "bool" /\ Get(c, "version").b ) THEN E_VERSION
    ELSE IF ~(Get(c, "note").t = "str" /\ ~IsBlank(Get(c, "note").s)) THEN E_NOTE
    ELSE IF Get(c, "match").t # "dict" THEN E_MATCH
    ELSE IF DOMAIN Get(c, "match").d \ allowed_match_keys # {} THEN E_UNKNOWN
    ELSE IF ~\E k \in allowed_match_keys : Truthy(Get(Get(c, "match"), k)) THEN E_EMPTY
    ELSE IF MatchShapeError(Get(c, "match")) # OK THEN MatchShapeError(Get(c, "match"))
    ELSE IF HasKey(c, "time") /\ c.d["time"].t # "null"
         THEN IF c.d["time"].t # "dict" THEN E_TIME ELSE TimeError(c.d["time"])
    ELSE OK

\* ------------------------------------------------------------ documents
\* the documents the validator is called with: each field of the document is
\* drawn from a few values of every kind the checks tell apart
ABSENT == [t |-> "absent"]
Field(k, v) == [k |-> k, v |-> v]

\* the dict with the fields that are not absent
MkDict(fields) ==
    LET present == {i \in 1..Len(fields) : fields[i].v.t # "absent"}
    IN  JDict([k \in {fields[i].k : i \in present} |->
                  fields[CHOOSE i \in present : fields[i].k = k].v])

TEXT == <<"o", "k">>
GUAYAQUIL == <<"A", "m", "e", "r", "i", "c", "a", "/", "G", "u", "a", "y", "a", "q", "u", "i", "l">>

VersionChoices == {"1", "2", "absent"}
VersionOf(ch) ==
    CASE ch = "1" -> JInt(1)
      [] ch = "2" -> JInt(2)
      [] ch = "absent" -> ABSENT

NoteChoices == {"text", "blank", "absent"}
NoteOf(ch) ==
    CASE ch = "text" -> JStr(TEXT)
      [] ch = "blank" -> JStr(<<Blank, Blank>>)
      [] ch = "absent" -> ABSENT

Service(proto, port) == MkDict(<<Field("protocol", proto), Field("port", port)>>)
One(k, v) == MkDict(<<Field(k, v)>>)

MatchChoices ==
    {"absent", "null", "list", "empty", "unknown", "zones_empty", "zones", "url_categories",
     "urls", "http_methods", "services", "zones_str", "methods_int", "zones_null_urls",
     "zones_urls", "svc_port0", "svc_port65536", "svc_noport", "svc_port_str",
     "svc_icmp", "svc_proto_list", "svc_item_str", "svc_port_true"}
MatchOf(ch) ==
    CASE ch = "absent" -> ABSENT
      [] ch = "null" -> JNull
      [] ch = "list" -> JList(<<JStr(TEXT)>>)
      [] ch = "empty" -> MkDict(<<>>)
      [] ch = "unknown" -> One("domains", JList(<<JStr(TEXT)>>))
      [] ch = "zones_empty" -> One("zones", JList(<<>>))
      [] ch = "zones" -> One("zones", JList(<<JInt(1)>>))
      [] ch = "url_categories" -> One("url_categories", JList(<<JInt(1)>>))
      [] ch = "urls" -> One("urls", JList(<<JStr(TEXT)>>))
      [] ch = "http_methods" -> One("http_methods", JList(<<JStr(<<"G", "E", "T">>)>>))
      [] ch = "services" -> One("services", JList(<<Service(JStr(TCP), JInt(443))>>))
      [] ch = "zones_str" -> One("zones", JStr(TEXT))
      [] ch = "methods_int" -> One("http_methods", JList(<<JInt(1)>>))
      [] ch = "zones_null_urls" ->
            MkDict(<<Field("zones", JNull), Field("urls", JList(<<JStr(TEXT)>>))>>)
      [] ch = "zones_urls" ->
            MkDict(<<Field("zones", JList(<<JInt(1)>>)), Field("urls", JList(<<JStr(TEXT)>>))>>)
      [] ch = "svc_port0" -> One("services", JList(<<Service(JStr(TCP), JInt(0))>>))
      [] ch = "svc_port65536" -> One("services", JList(<<Service(JStr(UDP), JInt(65536))>>))
      [] ch = "svc_noport" -> One("services", JList(<<Service(JStr(TCP), ABSENT)>>))
      [] ch = "svc_port_str" -> One("services", JList(<<Service(JStr(TCP), JStr(<<"8", "0">>))>>))
      [] ch = "svc_icmp" -> One("services", JList(<<Service(JStr(<<"I", "C", "M", "P">>), JInt(80))>>))
      [] ch = "svc_proto_list" ->
            One("services", JList(<<Service(JStr(UDP), JInt(53)), Service(JList(<<JStr(TCP)>>), JInt(80))>>))
      [] ch = "svc_item_str" -> One("services", JList(<<JStr(TCP)>>))
      [] ch = "svc_port_true" -> One("services", JList(<<Service(JStr(TCP), JBool(TRUE))>>))

DaysChoices == {"absent", "empty", "mon", "mon_tue", "xxx", "nested", "str"}
DaysOf(ch) ==
    CASE ch = "absent" -> ABSENT
      [] ch = "empty" -> JList(<<>>)
      [] ch = "mon" -> JList(<<JStr(MON)>>)
      [] ch = "mon_tue" -> JList(<<JStr(MON), JStr(TUE)>>)
      [] ch = "xxx" -> JList(<<JStr(MON), JStr(<<"X", "X", "X">>)>>)
      [] ch = "nested" -> JList(<<JStr(MON), JList(<<JStr(TUE)>>)>>)
      [] ch = "str" -> JStr(MON)

TimeChoices == {"absent", "0900", "1700", "2400", "900", "1U00", "int"}
TimeOf(ch) ==
    CASE ch = "absent" -> ABSENT
      [] ch = "0900" -> JStr(<<"0", "9", ":", "0", "0">>)
      [] ch = "1700" -> JStr(<<"1", "7", ":", "0", "0">>)
      [] ch = "2400" -> JStr(<<"2", "4", ":", "0", "0">>)
      [] ch = "900" -> JStr(<<"9", ":", "0", "0">>)
      [] ch = "1U00" -> JStr(<<"1", ARABIC3, ":", "0", "0">>)
      [] ch = "int" -> JInt(900)

TzChoices == {"absent", "blank", "zone", "null"}
TzOf(ch) ==
    CASE ch = "absent" -> ABSENT
      [] ch = "blank" -> JStr(<<Blank>>)
      [] ch = "zone" -> JStr(GUAYAQUIL)
      [] ch = "null" -> JNull

\* the time key: absent, null, a string, or a record of the four fields
BlockChoices == {"absent", "null", "str", "dict"}
BlockOf(ch, days, start, end, tz) ==
    CASE ch = "absent" -> ABSENT
      [] ch = "null" -> JNull
      [] ch = "str" -> JStr(TEXT)
      [] ch = "dict" -> MkDict(<<Field("days", DaysOf(days)), Field("start", TimeOf(start)),
                                 Field("end", TimeOf(end)), Field("tz", TzOf(tz))>>)

Document(ver, note, match, block, days, start, end, tz) ==
    MkDict(<<Field("version", VersionOf(ver)), Field("note", NoteOf(note)),
             Field("match", MatchOf(match)),
             Field("time", BlockOf(block, days, start, end, tz))>>)

\* the fields of a block that is no record are not drawn
NoField == "absent"

DocIdle == condition = JNull /\ raised = "none"

InitDoc ==
    /\ raised = "none"
    /\ \/ condition \in {JNull}
       \/ condition = JList(<<JStr(TEXT)>>)
       \/ condition = JStr(TEXT)
       \/ \E ver \in VersionChoices, note \in NoteChoices, match \in MatchChoices,
             block \in BlockChoices \ {"dict"} :
              condition = Document(ver, note, match, block, NoField, NoField, NoField, NoField)
       \/ \E ver \in VersionChoices, note \in NoteChoices, match \in {"absent", "empty", "zones", "services", "svc_proto_list"},
             days \in DaysChoices, start \in TimeChoices, end \in TimeChoices, tz \in TzChoices :
              condition = Document(ver, note, match, "dict", days, start, end, tz)

\* the call validate_rule_condition(self.condition) of Rule.clean
Validate ==
    /\ raised = "none"
    /\ raised' = validate_rule_condition(condition)
    /\ UNCHANGED <<condition, ingestVars, ruleVars, parseVars, viewVars>>

\* ============================================================ line parser
\* import_squid_accesslog.py: split_squid_status, the classification of lines
\* 118-137 and parse_url.  The status token is a string of characters; the
\* URL token is a sequence of chunks, each a character with a meaning to
\* urlparse (":", "/", "?") or a run of characters without one.

\* first position of x in the sequence s, 0 if there is none
Find(s, x) ==
    IF \E i \in 1..Len(s) : s[i] = x
    THEN CHOOSE i \in 1..Len(s) : s[i] = x /\ \A j \in 1..(i - 1) : s[j] # x
    ELSE 0

\* `w in s` of two strings
Contains(s, w) ==
    \E i \in 1..(Len(s) - Len(w) + 1) : SubSeq(s, i, i + Len(w) - 1) = w

\* int(right): the value of a string of digits; anything else raises, and the
\* code is None
IsNumber(s) == Len(s) > 0 /\ \A i \in 1..Len(s) : s[i] \in AsciiDigits

RECURSIVE NumberOf(_)
NumberOf(s) ==
    IF Len(s) = 0 THEN 0
    ELSE 10 * NumberOf(SubSeq(s, 1, Len(s) - 1))
         + (CHOOSE d \in 0..9 : DigitChar(d) = s[Len(s)])

NONE == [null |-> TRUE, n |-> 0]
Some(n) == [null |-> FALSE, n |-> n]

\* split_squid_status(status): (left, code)
split_squid_status(st) ==
    IF Find(st, "/") = 0 THEN [left |-> st, code |-> NONE]
    ELSE LET left == SubSeq(st, 1, Find(st, "/") - 1)
             right == SubSeq(st, Find(st, "/") + 1, Len(st))
         IN  [left |-> left,
              code |-> IF IsNumber(right) THEN Some(NumberOf(right)) ELSE NONE]

DENIED == <<"D", "E", "N", "I", "E", "D">>
HIT == <<"H", "I", "T">>
MISS == <<"M", "I", "S", "S">>
BYPASS == <<"B", "Y", "P", "A", "S", "S">>
EXPIRED == <<"E", "X", "P", "I", "R", "E", "D">>
REVALIDATED == <<"R", "E", "V", "A", "L", "I", "D", "A", "T", "E", "D">>

\* a classifier that asks for the tag to be the word itself
VerdictEquals(left) == IF left = DENIED THEN "DENY" ELSE "ALLOW"

\* lines 120-126
VerdictOf(left) == IF Contains(left, DENIED) THEN "DENY" ELSE "ALLOW"
BlockReasonOf(left) == IF Contains(left, DENIED) THEN left ELSE <<>>

\* a classifier that takes the first cache word from the end of the list
CacheStatusReversed(left) ==
    IF Contains(left, REVALIDATED) THEN "REVALIDATED"
    ELSE IF Contains(left, EXPIRED) THEN "EXPIRED"
    ELSE IF Contains(left, BYPASS) THEN "BYPASS"
    ELSE IF Contains(left, MISS) THEN "MISS"
    ELSE IF Contains(left, HIT) THEN "HIT"
    ELSE "NULL"

\* lines 128-137: the if/elif chain; "NULL" is cache_status = None
CacheStatusOf(left) ==
    IF Contains(left, HIT) THEN "HIT"
    ELSE IF Contains(left, MISS) THEN "MISS"
    ELSE IF Contains(left, BYPASS) THEN "BYPASS"
    ELSE IF Contains(left, EXPIRED) THEN "EXPIRED"
    ELSE IF Contains(left, REVALIDATED) THEN "REVALIDATED"
    ELSE "NULL"

\* ------------------------------------------------------------ urlparse
\* the chunks of a URL: runs of letters, digits and dots, runs of digits, and
\* the characters urlparse looks for
SchemeRuns == {"http", "https", "HTTP", "facebook.com", "example.com", "a"}
DigitRuns == {"0", "80", "443", "8080", "99999"}

\* str.lower()
Lower(c) == IF c = "HTTP" THEN "http" ELSE c
LowerAll(s) == [i \in 1..Len(s) |-> Lower(s[i])]

\* int() of a run of digits
RunValue(c) ==
    CASE c = "0" -> 0 [] c = "80" -> 80 [] c = "443" -> 443 [] c = "8080" -> 8080
      [] c = "99999" -> 99999

\* urlsplit: `i = url.find(":")`, the text before it starts with a letter and
\* has scheme characters only (letters, digits, + - .)
HasScheme(u) ==
    /\ Find(u, ":") > 1
    /\ u[1] \in SchemeRuns
    /\ \A j \in 1..(Find(u, ":") - 1) : u[j] \in SchemeRuns \cup DigitRuns

SplitScheme(u) ==
    IF HasScheme(u)
    THEN [scheme |-> LowerAll(SubSeq(u, 1, Find(u, ":") - 1)),
          rest |-> SubSeq(u, Find(u, ":") + 1, Len(u))]
    ELSE [scheme |-> <<>>, rest |-> u]

\* `if url[:2] == "//"`: the netloc runs to the first "/" or "?"
NetlocEnd(r) ==
    LET stops == {i \in 3..Len(r) : r[i] \in {"/", "?"}}
    IN  IF stops = {} THEN Len(r) ELSE (CHOOSE i \in stops : \A j \in stops : i <= j) - 1

SplitNetloc(r) ==
    IF Len(r) >= 2 /\ r[1] = "/" /\ r[2] = "/"
    THEN [netloc |-> SubSeq(r, 3, NetlocEnd(r)), rest |-> SubSeq(r, NetlocEnd(r) + 1, Len(r))]
    ELSE [netloc |-> <<>>, rest |-> r]

\* `if "?" in url: url, query = url.split("?", 1)`
SplitQuery(r) ==
    IF Find(r, "?") = 0 THEN [path |-> r, query |-> <<>>]
    ELSE [path |-> SubSeq(r, 1, Find(r, "?") - 1), query |-> SubSeq(r, Find(r, "?") + 1, Len(r))]

\* urlparse(raw): scheme, netloc, path, query
urlparse(raw) ==
    LET a == SplitScheme(raw)
        b == SplitNetloc(a.rest)
        c == SplitQuery(b.rest)
    IN  [scheme |-> a.scheme, netloc |-> b.netloc, path |-> c.path, query |-> c.query]

\* .hostname: the netloc up to its ":", lower case; None (<<>>) if empty
Hostname(p) ==
    LET n == p.netloc
    IN  LowerAll(IF Find(n, ":") = 0 THEN n ELSE SubSeq(n, 1, Find(n, ":") - 1))

\* the text behind the ":" of the netloc
PortText(p) ==
    IF Find(p.netloc, ":") = 0 THEN <<>>
    ELSE SubSeq(p.netloc, Find(p.netloc, ":") + 1, Len(p.netloc))

\* .port raises ValueError for a port that is no number or is above 65535
PortRaises(p) ==
    /\ PortText(p) # <<>>
    /\ \/ Len(PortText(p)) # 1
       \/ PortText(p)[1] \notin DigitRuns
       \/ RunValue(PortText(p)[1]) > 65535

\* .port: None for no port
Port(p) == IF PortText(p) = <<>> THEN NONE ELSE Some(RunValue(PortText(p)[1]))

\* parse_url(raw), lines 38-45, when it does not raise: `x or default` takes
\* the default for None, for "" and for 0
parse_url(raw) ==
    LET p == urlparse(raw)
        scheme == IF p.scheme = <<>> THEN <<"http">> ELSE p.scheme
    IN  [scheme |-> scheme,
         host |-> IF Hostname(p) = <<>> THEN raw ELSE Hostname(p),
         port |-> IF Port(p).null \/ Port(p).n = 0
                  THEN (IF scheme = <<"https">> THEN 443 ELSE 80)
                  ELSE Port(p).n,
         path |-> IF p.path = <<>> THEN <<"/">> ELSE p.path,
         query |-> p.query]

\* ------------------------------------------------------------ one line
NoUrl == [scheme |-> <<>>, host |-> <<>>, port |-> 0, path |-> <<>>, query |-> <<>>]
NoEvent == [state |-> "none", verdict |-> "", block_reason |-> <<>>, cache_status |-> "",
            http_status |-> NONE, url |-> NoUrl, dest_port |-> 0]

\* lines 116-163 for a line that matched SQUID_RE: the row handed to
\* Request.objects.create, or the ValueError of parse_url
RowOfLine(st, raw) ==
    LET s == split_squid_status(st)
    IN  IF PortRaises(urlparse(raw))
        THEN [NoEvent EXCEPT !.state = "ValueError"]
        ELSE [state |-> "created",
              verdict |-> VerdictOf(s.left),
              block_reason |-> BlockReasonOf(s.left),
              cache_status |-> CacheStatusOf(s.left),
              http_status |-> s.code,
              url |-> parse_url(raw),
              dest_port |-> parse_url(raw).port]

\* the status tokens: a tag of two words and a code
TagWords == {<<>>, <<"T", "C", "P", "_">>, <<"N", "O", "N", "E">>, DENIED, HIT, MISS,
             BYPASS, EXPIRED, REVALIDATED}
CodeTexts == {<<>>, <<"/">>, <<"/", "-">>, <<"/", "4", "0", "3">>, <<"/", "2", "0", "0">>,
              <<"/", "2", "0", "0", "/", "x">>}

\* the URL tokens: [scheme "://"] host [":" port] [path] ["?" query]
UrlSchemes == {<<>>, <<"http", ":", "/", "/">>, <<"https", ":", "/", "/">>, <<"HTTP", ":", "/", "/">>}
UrlHosts == {<<"facebook.com">>, <<"example.com">>}
UrlPorts == {<<>>, <<":", "443">>, <<":", "80">>, <<":", "8080">>, <<":", "0">>, <<":", "99999">>}
UrlPaths == {<<>>, <<"/">>, <<"/", "a">>}
UrlQueries == {<<>>, <<"?", "x=1">>}

ParseIdle == status = <<>> /\ url_raw = <<>> /\ event = NoEvent

InitParse ==
    /\ \E w1 \in TagWords, w2 \in TagWords, c \in CodeTexts : status = w1 \o w2 \o c
    /\ \E s \in UrlSchemes, h \in UrlHosts, p \in UrlPorts, pa \in UrlPaths, q \in UrlQueries :
          url_raw = s \o h \o p \o pa \o q
    /\ event = NoEvent

\* one turn of the loop body for a line that matched
ParseLine ==
    /\ event.state = "none"
    /\ event' = RowOfLine(status, url_raw)
    /\ UNCHANGED <<status, url_raw, ingestVars, ruleVars, docVars, viewVars>>

\* ============================================================ rule write path
\* Aplicaciones/control: Rule.save (full_clean, then the INSERT or UPDATE), the
\* views rule_create, rule_edit and rule_toggle that call it, and the admin
\* actions that write with QuerySet.update.  One request at a time goes
\* through; a write of another request can commit between its full_clean and
\* its statement.
ViewRows == 3        \* rows of table rule in this part

DUPLICATE == "Ya existe una regla con la misma politica y prioridad. Cambia la prioridad o edita la regla existente."
CONSTRAINT_MSG == "Constraint rule_policy_priority_active_uniq is violated."
M_REQUIRED == "Debes seleccionar"
M_INVALID == "invalida."
M_SUCCESS == "Regla guardada."

\* a field of request.POST: given or not, and its text
Posted(text) == [given |-> TRUE, text |-> text]
NotPosted == [given |-> FALSE, text |-> <<>>]

\* _required_int(post_data, key, label): the message of the ValidationError
\* it raises, OK when it returns int(raw)
required_int(f) ==
    IF ~f.given \/ f.text = <<>> THEN M_REQUIRED
    ELSE IF ~IsNumber(f.text) THEN M_INVALID
    ELSE OK

\* request.POST.get("priority", "10")
PriorityText(f) == IF f.given THEN f.text ELSE <<"1", "0">>

\* _humanize_validation_error(exc): the messages of the error, or the
\* duplicate-priority message when one of them names the constraint
humanize_validation_error(msgs) ==
    IF \E i \in 1..Len(msgs) : msgs[i] = CONSTRAINT_MSG THEN <<DUPLICATE>> ELSE msgs

\* a Rule.save that skips full_clean's call of clean()
clean_skipped(c) == OK

\* Rule.clean: validate_rule_condition(self.condition)
Rule_clean(c) == validate_rule_condition(c)

\* the documents the writers submit: two that the validator accepts, one
\* with version 2, one with a clock text out of range, one with a service
\* whose protocol is a list, one that is no dict
DocPlain == Document("1", "text", "zones", "absent", NoField, NoField, NoField, NoField)
DocTimed == Document("1", "text", "urls", "dict", "mon", "0900", "1700", "zone")
SubmittedDocs ==
    <<DocPlain, DocTimed,
      Document("2", "text", "zones", "absent", NoField, NoField, NoField, NoField),
      Document("1", "text", "zones", "dict", "mon", "0900", "2400", "zone"),
      Document("1", "text", "svc_proto_list", "absent", NoField, NoField, NoField, NoField),
      JNull>>

\* the policy/priority rows of the table, as the constraint sees them
Rows(t) == [i \in 1..Len(t) |-> t[i].row]

NoInst == [kind |-> "none", id |-> 0, policy |-> 0, priority |-> 0,
           is_delete |-> FALSE, deleted_at |-> NULL]
NoReq == [kind |-> "none", id |-> 0, policy |-> NotPosted, url_category |-> NotPosted,
          priority |-> NotPosted, inst |-> NoInst, doc |-> JNull, enabled |-> FALSE]

ViewKinds == {"rule_create", "rule_edit"}

ViewIdle == vtable = <<>> /\ vreq = NoReq /\ vpc = "idle" /\ vexc = "none" /\ vmsg = <<>>

PolicyTexts == {NotPosted, Posted(<<>>), Posted(<<"x">>), Posted(<<"1">>)}
CategoryTexts == {Posted(<<>>), Posted(<<"1">>)}
PriorityTexts == {NotPosted, Posted(<<>>), Posted(<<"a", "b", "c">>), Posted(<<"1", "0">>),
                  Posted(<<"2", "0">>)}

\* the instance a caller of save() holds: a new one, or row i as loaded, with
\* the policy and priority it sets
Instance(i, p, pr) ==
    [kind |-> IF i = 0 THEN "create" ELSE "update", id |-> i, policy |-> p, priority |-> pr,
     is_delete |-> IF i = 0 THEN FALSE ELSE vtable[i].row.is_delete,
     deleted_at |-> IF i = 0 THEN NULL ELSE vtable[i].row.deleted_at]

\* a request arrives: the one before it, if any, has been answered
Arrives ==
    /\ vpc \in {"idle", "done"}
    /\ nops < MaxOps
    /\ nops' = nops + 1
    /\ vpc' = "posted"
    /\ vexc' = "none"
    /\ vmsg' = <<>>
    /\ UNCHANGED <<vtable, rules, wpc, wop, wres, ingestVars, docVars, parseVars>>

\* POST to rule_create
PostCreate ==
    /\ Arrives
    /\ \E p \in PolicyTexts, c \in CategoryTexts, pr \in PriorityTexts :
          vreq' = [NoReq EXCEPT !.kind = "rule_create", !.policy = p, !.url_category = c,
                                !.priority = pr, !.enabled = TRUE]

\* POST to rule_edit: get_object_or_404 over all_objects
PostEdit ==
    /\ Arrives
    /\ \E i \in 1..Len(vtable), p \in PolicyTexts, c \in CategoryTexts, pr \in PriorityTexts :
          vreq' = [NoReq EXCEPT !.kind = "rule_edit", !.id = i, !.policy = p,
                                !.url_category = c, !.priority = pr, !.enabled = TRUE]

\* POST to rule_toggle: get_object_or_404 over the live rows
PostToggle ==
    /\ Arrives
    /\ \E i \in 1..Len(vtable) :
          /\ Live(vtable[i].row)
          /\ vreq' = [NoReq EXCEPT !.kind = "rule_toggle", !.id = i]

\* save() of an instance that carries a condition: the add and change forms of
\* RuleAdmin, or any other caller
CallSave ==
    /\ Arrives
    /\ \E i \in 0..Len(vtable), pr \in Priorities, d \in 1..Len(SubmittedDocs) :
          /\ i = 0 => Len(vtable) < ViewRows
          /\ vreq' = [NoReq EXCEPT !.kind = "save", !.id = i, !.inst = Instance(i, 1, pr),
                                   !.doc = SubmittedDocs[d], !.enabled = TRUE]

\* the request ends: with the exception exc (none for success) and the
\* messages shown
Finish(exc, msgs) ==
    /\ vpc' = "done"
    /\ vexc' = exc
    /\ vmsg' = msgs

\* the body of the try block up to rule.save(): the fields are read in the
\* order of the code; Rule has no fields url_category_id, note or schedule_*,
\* so the constructor call of rule_create raises TypeError, while rule_edit
\* sets them as plain attributes
Bind ==
    /\ vpc = "posted"
    /\ IF vreq.kind \in ViewKinds
       THEN IF required_int(vreq.policy) # OK
            THEN /\ Finish("ValidationError", humanize_validation_error(<<required_int(vreq.policy)>>))
                 /\ UNCHANGED vreq
            ELSE IF required_int(vreq.url_category) # OK
            THEN /\ Finish("ValidationError",
                           humanize_validation_error(<<required_int(vreq.url_category)>>))
                 /\ UNCHANGED vreq
            ELSE IF ~IsNumber(PriorityText(vreq.priority))
            THEN /\ Finish("ValueError", <<DUPLICATE>>)
                 /\ UNCHANGED vreq
            ELSE IF vreq.kind = "rule_create"
            THEN /\ Finish("TypeError", <<>>)
                 /\ UNCHANGED vreq
            ELSE /\ vreq' = [vreq EXCEPT
                        !.inst = Instance(vreq.id, NumberOf(vreq.policy.text),
                                          NumberOf(PriorityText(vreq.priority))),
                        !.doc = vtable[vreq.id].condition]
                 /\ vpc' = "bound"
                 /\ UNCHANGED <<vexc, vmsg>>
       ELSE /\ vreq' = IF vreq.kind = "rule_toggle"
                       THEN [vreq EXCEPT
                               !.inst = [Instance(vreq.id, vtable[vreq.id].row.policy,
                                                  vtable[vreq.id].row.priority)
                                         EXCEPT !.kind = "toggle"],
                               !.doc = vtable[vreq.id].condition,
                               !.enabled = ~vtable[vreq.id].enabled]
                       ELSE vreq
            /\ vpc' = "bound"
            /\ UNCHANGED <<vexc, vmsg>>
    /\ UNCHANGED <<vtable, ruleVars, ingestVars, docVars, parseVars>>

\* what the except clauses of the views make of an exception of save()
Reported(msgs) == IF vreq.kind \in ViewKinds THEN humanize_validation_error(msgs) ELSE msgs

\* Rule.save, first half: full_clean() runs clean() and validates the
\* constraint; it collects the ValidationErrors and raises them as one, and
\* lets any other exception of clean() through
FullClean ==
    /\ vpc = "bound"
    /\ LET v == Rule_clean(vreq.doc)
           msgs == (IF v # OK THEN <<v>> ELSE <<>>)
                   \o (IF ConstraintViolated(Rows(vtable), vreq.inst)
                       THEN <<CONSTRAINT_MSG>> ELSE <<>>)
       IN  IF v = TYPE_ERROR THEN Finish("TypeError", <<>>)
           ELSE IF msgs # <<>> THEN Finish("ValidationError", Reported(msgs))
           ELSE vpc' = "checked" /\ UNCHANGED <<vexc, vmsg>>
    /\ UNCHANGED <<vtable, vreq, ruleVars, ingestVars, docVars, parseVars>>

\* another request's save commits a live rule at a free priority
RivalCommits ==
    /\ vpc = "checked"
    /\ Len(vtable) < ViewRows
    /\ \E pr \in Priorities :
          /\ PairFree(Rows(vtable), 1, pr)
          /\ vtable' = Append(vtable, [row |-> Row(Instance(0, 1, pr)), enabled |-> TRUE,
                                      condition |-> DocPlain])
    /\ UNCHANGED <<vreq, vpc, vexc, vmsg, ruleVars, ingestVars, docVars, parseVars>>

\* the row super().save() leaves: all fields of the instance, or enabled alone
\* with update_fields=["enabled"]
Saved(t, req) ==
    LET new == [row |-> Row(req.inst), enabled |-> req.enabled, condition |-> req.doc]
    IN  IF req.inst.id = 0 THEN Append(t, new)
        ELSE IF req.inst.kind = "toggle" THEN [t EXCEPT ![req.inst.id].enabled = req.enabled]
        ELSE [t EXCEPT ![req.inst.id] = new]

\* Rule.save, second half: super().save() executes the statement, or the
\* index rejects it with IntegrityError
Save ==
    /\ vpc = "checked"
    /\ IF DbAccepts(Rows(vtable), vreq.inst)
       THEN /\ vtable' = Saved(vtable, vreq)
            /\ Finish("none", <<M_SUCCESS>>)
       ELSE /\ Finish("IntegrityError", IF vreq.kind \in ViewKinds THEN <<DUPLICATE>> ELSE <<>>)
            /\ UNCHANGED vtable
    /\ UNCHANGED <<vreq, ruleVars, ingestVars, docVars, parseVars>>

\* admin.py make_enabled / make_disabled: queryset.update(enabled=...) on the
\* selected live rows, without save()
BulkUpdate ==
    /\ vpc \in {"idle", "done"}
    /\ nops < MaxOps
    /\ nops' = nops + 1
    /\ \E sel \in SUBSET (1..Len(vtable)), b \in BOOLEAN :
          /\ sel # {}
          /\ \A i \in sel : Live(vtable[i].row)
          /\ vtable' = [i \in 1..Len(vtable) |->
                           IF i \in sel THEN [vtable[i] EXCEPT !.enabled = b] ELSE vtable[i]]
          /\ vreq' = [NoReq EXCEPT !.kind = "make_enabled", !.enabled = b]
    /\ Finish("none", <<>>)
    /\ UNCHANGED <<rules, wpc, wop, wres, ingestVars, docVars, parseVars>>

NextView ==
    \/ PostCreate
    \/ PostEdit
    \/ PostToggle
    \/ CallSave
    \/ Bind
    \/ FullClean
    \/ RivalCommits
    \/ Save
    \/ BulkUpdate

\* ------------------------------------------------------------ reference rows
\* SoftDeleteModel and SoftDeleteQuerySet on the rows of http_method and url,
\* and the update_or_create calls of the seed command
RefTables == {"http_method", "url"}
FACEBOOK == "https://facebook.com:443/"
TableOf(t) == IF t = "http_method" THEN http_method ELSE url

\* the rows that open transactions have inserted into table t: an index entry
\* exists for them, so a write that collides with one waits for the
\* transaction to end and is refused once it has committed
Open(r, rows) == IF pc[r] = "tx" THEN rows ELSE <<>>
PendingOf(t) ==
    IF t = "http_method" THEN Open(1, txMeth[1]) \o Open(2, txMeth[2])
    ELSE Open(1, txUrl[1]) \o Open(2, txUrl[2])

\* the keys the seed command writes, one per table here: method GET (of GET
\* and POST) and the URL of facebook.com (of four social networks)
SeedKeys(t) == IF t = "http_method" THEN {"GET"} ELSE {FACEBOOK}

\* the keys of the rows of table t that a delete can select
KeysOf(t) == {TableOf(t)[i].key : i \in 1..Len(TableOf(t))}

\* a table without the partial unique index
index_absent(rows) == TRUE

\* UniqueConstraint(fields=[...], condition=Q(is_delete=False)): no two live
\* rows with the same key
active_uniq(rows) ==
    \A i, j \in 1..Len(rows) :
        (i # j /\ rows[i].key = rows[j].key) => rows[i].is_delete \/ rows[j].is_delete

\* the database takes the write that leaves table t as rows
Accepted(t, rows) == active_uniq(rows \o PendingOf(t))

\* SoftDeleteManager.get_queryset: the rows of objects
Alive(rows) == {i \in 1..Len(rows) : rows[i].is_delete = FALSE}

\* SoftDeleteModel.delete, SoftDeleteQuerySet.delete
Deleted(row) == [row EXCEPT !.is_delete = TRUE, !.deleted_at = NOW]

\* SoftDeleteModel.restore
Restored(row) == [row EXCEPT !.is_delete = FALSE, !.deleted_at = NULL]

\* update_or_create(..., defaults={"is_delete": False}) on a row it found
Updated(row) == [row EXCEPT !.is_delete = FALSE]

\* table t becomes rows, nothing else changes
Stores(t, rows) ==
    /\ http_method' = IF t = "http_method" THEN rows ELSE http_method
    /\ url' = IF t = "url" THEN rows ELSE url
    /\ UNCHANGED <<logf, gen, wrote, statefile, stateDir, requests,
                   runVars, faults, ruleVars, otherVars>>

\* obj.delete() on a row fetched through all_objects (method_delete, url_delete)
InstanceDelete ==
    \E t \in RefTables : \E i \in 1..Len(TableOf(t)) :
        Stores(t, [TableOf(t) EXCEPT ![i] = Deleted(@)])

\* Model.objects.filter(key).delete(): one UPDATE of the live rows selected
QuerysetDelete ==
    \E t \in RefTables : \E k \in KeysOf(t) :
        Stores(t, [i \in 1..Len(TableOf(t)) |->
                      IF i \in Alive(TableOf(t)) /\ TableOf(t)[i].key = k
                      THEN Deleted(TableOf(t)[i]) ELSE TableOf(t)[i]])

\* obj.restore() on a deleted row; the UPDATE raises IntegrityError, and the
\* row stays as it is, if a live row with the key exists
Restore ==
    \E t \in RefTables : \E i \in 1..Len(TableOf(t)) :
        /\ TableOf(t)[i].is_delete
        /\ Accepted(t, [TableOf(t) EXCEPT ![i] = Restored(@)])
        /\ Stores(t, [TableOf(t) EXCEPT ![i] = Restored(@)])

\* one all_objects.update_or_create(key, defaults={..., "is_delete": False})
\* of the seed command: get() over all rows, deleted ones included; no row:
\* create; one row: set the defaults and save; several rows:
\* MultipleObjectsReturned
Seed ==
    \E t \in RefTables : \E k \in SeedKeys(t) :
        LET found == {i \in 1..Len(TableOf(t)) : TableOf(t)[i].key = k}
            rows == IF found = {} THEN Append(TableOf(t), NewRow(k))
                    ELSE [i \in 1..Len(TableOf(t)) |->
                             IF i \in found THEN Updated(TableOf(t)[i]) ELSE TableOf(t)[i]]
        IN  /\ Cardinality(found) <= 1
            /\ Accepted(t, rows)
            /\ Stores(t, rows)

\* ============================================================ specifications
Init == InitIngest /\ InitRules /\ DocIdle /\ ParseIdle /\ ViewIdle

Next ==
    \/ AppendLine
    \/ Rotate
    \/ RunStep(Sole)
    \/ RunFault(Sole)

Spec == Init /\ [][Next]_vars

SpecRules == Init /\ [][NextRules]_vars

\* runs are invoked again and again, one at a time; a crash or a database
\* failure can hit any of them, the log is not rotated.  A run that is not
\* hit takes its next step.
NextLive ==
    \/ AppendLine
    \/ RunStep(Sole)
    \/ StorageFails(Sole)
    \/ Crash(Sole)

FairSpec == Init /\ [][NextLive]_vars /\ WF_vars(RunStep(Sole))

\* one call of the validator on one document
InitValidate == InitIngest /\ InitRules /\ InitDoc /\ ParseIdle /\ ViewIdle
SpecValidate == InitValidate /\ [][Validate]_vars

\* one log line through the loop body
InitLine == InitIngest /\ InitRules /\ DocIdle /\ InitParse /\ ViewIdle
SpecParse == InitLine /\ [][ParseLine]_vars

\* requests to the rule views, calls of Rule.save and admin actions
SpecView == Init /\ [][NextView]_vars

\* two runs of the command at once (two cron entries, or a cron run and an
\* operator's) on one log file and one state file; no failures, no rotation
RaceFile == 3        \* chunks in the log after which the proxy writes no further record
RaceRows == 2        \* rows in table requests after which no run takes a step
NextRace ==
    \/ wrote < RaceFile /\ AppendLine
    \/ Len(requests) < RaceRows /\ \E r \in Runners : RunStep(r)

SpecRace == Init /\ [][NextRace]_vars

\* runs of the command, one at a time and without failures, while the reference
\* rows are deleted and restored through the views and the seed command runs
NextRefs ==
    \/ AppendLine
    \/ RunStep(Sole)
    \/ InstanceDelete
    \/ QuerysetDelete
    \/ Restore
    \/ Seed

SpecRefs == Init /\ [][NextRefs]_vars

\* runs of the command, one at a time and without failures, on a state file
\* that holds anything at the start: it was edited, damaged or left by
\* another tool
StateContents ==
    {SFAbsent, SFEmpty, SFGarbage} \cup {SFText(n) : n \in -1..(MaxFile + 1)}

InitState ==
    /\ statefile \in StateContents
    /\ InitRun /\ InitRules /\ DocIdle /\ ParseIdle /\ ViewIdle

NextState ==
    \/ AppendLine
    \/ RunStep(Sole)
    \/ SeekRaises(Sole)

SpecState == InitState /\ [][NextState]_vars

\* runs of the command, one at a time and without failures, on a log that
\* the proxy writes in pieces: a run can find the start of a record at the
\* end of the file
NextPartial ==
    \/ Unfinished(logf) = <<>> /\ AppendLine
    \/ AppendFragment
    \/ CompleteLine
    \/ RunStep(Sole)

SpecPartial == Init /\ [][NextPartial]_vars

\* runs of the command, one at a time, on a log that only grows by whole
\* records: no crash, no failure of the database or the file system, no
\* rotation
NextQuiet ==
    \/ AppendLine
    \/ RunStep(Sole)

SpecQuiet == Init /\ [][NextQuiet]_vars

\* ============================================================ claims
\* the step in which the run of r ends with outcome res
EndsWith(r, res) ==
    /\ pc'[r] = "idle"
    /\ last'[r].result = res
    /\ \/ pc[r] # "idle"
       \/ pc[r] = "idle" /\ faults' # faults /\ \A q \in Runners : pc[q] = "idle"

\* the rows the run of r has added to the requests table
RowsOf(r) == SubSeq(requests, base[r] + 1, Len(requests))

\* ------------------------------------------------------------ C1
\* C1: the offset file is written only after the transaction that stored the
\* batch's rows has committed: whenever the content of the state file changes,
\* crashes included, the step is taken by a run that has left the atomic block
\* and whose rows are all stored, and it writes that run's offset.
C1_OffsetOnlyAfterCommit ==
    [][statefile' # statefile =>
          \E r \in Runners :
              /\ pc[r] \in {"committed", "writing"}
              /\ RowsOf(r) = txReq[r]
              /\ requests' = requests
              /\ statefile' \in {SFEmpty, SFText(new_offset[r])}]_vars

C1_Witness ==
    /\ statefile.kind = "int"
    /\ statefile.val > 0
    /\ Len(requests) > 0
    /\ last[Sole].result = "success"

\* ------------------------------------------------------------ C2
\* C2: when the database raises while a batch is persisted, no row of the batch
\* is stored afterwards (requests, http_method and url are as before the run),
\* the state file is unchanged, and the next run, if the log is unchanged, reads
\* the same window of lines again.
C2_FailedBatchLeavesNothing ==
    [][\A r \in Runners :
          /\ EndsWith(r, "exc_storage") =>
                /\ requests' = requests
                /\ Len(requests') = base[r]
                /\ http_method' = http_method
                /\ url' = url
                /\ statefile' = statefile
          /\ ( /\ pc[r] = "resumed" /\ pc'[r] = "tx"
               /\ last[r].result = "exc_storage"
               /\ last[r].gen = gen
               /\ last[r].size = Len(logf) ) =>
                /\ offset[r] = last[r].offset
                /\ new_offset'[r] = last[r].new_offset
                /\ lines'[r] = ReadLines(logf, last[r].offset, Limit)]_vars

C2_Witness ==
    /\ pc[Sole] = "tx"
    /\ last[Sole].result = "exc_storage"
    /\ last[Sole].gen = gen
    /\ last[Sole].size = Len(logf)
    /\ offset[Sole] = last[Sole].offset
    /\ new_offset[Sole] = last[Sole].new_offset
    /\ Len(lines[Sole]) = 2
    /\ requests = <<>>

\* ------------------------------------------------------------ C3
\* the whole lines of the log file
FileLines == ReadLines(logf, 0, Len(logf))

\* the log holds, from position s to position e, a record that has the
\* ten-field shape and whose fields convert
WellFormedAt(s, e) ==
    \E i \in 1..Len(FileLines) :
        /\ FileLines[i].start = s
        /\ FileLines[i].end = e
        /\ SquidMatch(FileLines[i].text)
        /\ ~ParseUrlRaises(FileLines[i].text)

StoredSpan(s, e) ==
    \E i \in 1..Len(requests) : requests[i] = [gen |-> gen, start |-> s, end |-> e]

\* C3: at-least-once delivery: every well-formed line the proxy has written is
\* eventually stored as a row, and the persisted offset never lies behind a
\* well-formed line that is not stored.
C3_AtLeastOnce ==
    /\ \A s \in 0..MaxFile, e \in 1..MaxFile :
          [](WellFormedAt(s, e) => <>StoredSpan(s, e))
    /\ [](\A s \in 0..MaxFile, e \in 1..MaxFile :
            (WellFormedAt(s, e) /\ statefile.kind = "int" /\ e <= statefile.val)
                => StoredSpan(s, e))

\* ------------------------------------------------------------ C4
\* C4: a run that finds the log file smaller than the persisted offset reads
\* from offset 0, which is not past the end of the file, and handles the lines
\* from the start of the file.
C4_RotationResets ==
    \A r \in Runners :
        (pc[r] \in {"resumed", "tx", "committed"} /\ StoredOffset(statefile) > st_size[r]) =>
            /\ offset[r] = 0
            /\ offset[r] <= st_size[r]
            /\ pc[r] # "resumed" =>
                  /\ lines[r] # <<>>
                  /\ lines[r][1].start = 0
            /\ pc[r] = "committed" => inserted[r] + skipped[r] = Len(lines[r])

C4_Witness ==
    /\ pc[Sole] = "committed"
    /\ StoredOffset(statefile) > st_size[Sole]
    /\ st_size[Sole] > 0
    /\ Len(lines[Sole]) >= 1

\* ------------------------------------------------------------ C5
\* the step in which the run of r reads the log, after a run of r that ended
\* with one of the outcomes in res, the log being unchanged since that run began
ReadsAgain(r, res) ==
    /\ pc[r] = "resumed"
    /\ pc'[r] # "resumed"
    /\ last'[r].result # "exc_open"
    /\ last'[r].result # "crash"
    /\ last[r].result \in res
    /\ last[r].gen = gen
    /\ last[r].size = Len(logf)

\* it reads no line and the run ends without a write
ReadsNothing(r) ==
    /\ pc'[r] = "idle"
    /\ last'[r].result = "noop"
    /\ UNCHANGED <<statefile, requests, http_method, url>>

\* C5 as stated: after a successful run and with the log unchanged, the next
\* run reads zero lines, inserts nothing and leaves the state file as it is.
C5_Original ==
    [][\A r \in Runners : ReadsAgain(r, {"success"}) => ReadsNothing(r)]_vars

\* C5 amended: the same, for a run that ended at the end of the log file (it
\* read fewer lines than the limit allows, or the limit's last line was the
\* last of the file), or that read no line itself.
C5_ResumeAtEndIsNoop ==
    [][\A r \in Runners :
          (ReadsAgain(r, {"success", "noop"}) /\ last[r].new_offset >= last[r].size)
              => ReadsNothing(r)]_vars

C5_Witness ==
    /\ last[Sole].result = "noop"
    /\ pc[Sole] = "idle"
    /\ statefile.kind = "int"
    /\ statefile.val = Len(logf)
    /\ requests # <<>>
    /\ last[Sole].gen = gen
    /\ last[Sole].size = Len(logf)

\* ------------------------------------------------------------ C6
\* C6: a run that finds the log file missing or unreadable reports it and
\* returns (no exception leaves handle()), and has changed neither the tables
\* nor the state file.
C6_UnreadableLogReported ==
    [][\A r \in Runners :
          (\E res \in {"reported_missing", "reported_noperm", "exc_open"} : EndsWith(r, res)) =>
              /\ last'[r].result \in {"reported_missing", "reported_noperm"}
              /\ UNCHANGED <<statefile, requests, http_method, url>>]_vars

\* ------------------------------------------------------------ C7
\* C7: a run that cannot write the state file ends without a row of its own
\* left in the tables.
C7_UnwritableStateChangesNothing ==
    [][\A r \in Runners :
          (\E res \in {"exc_makedirs", "exc_statefile"} : EndsWith(r, res)) =>
              /\ Len(requests') = (IF pc[r] = "idle" THEN Len(requests) ELSE base[r])
              /\ statefile' = statefile]_vars

\* ------------------------------------------------------------ C8
\* the number of rows of the run of r, after the step, for the line l
RowsFor(r, l) ==
    Cardinality({i \in (base[r] + 1)..Len(requests') :
                    requests'[i] = [gen |-> rdGen[r], start |-> l.start, end |-> l.end]})

\* C8: a batch is never aborted by its lines: a run that has read a batch and
\* is hit by no crash and no failure of the database or the state file ends
\* with every line of the ten-field shape stored as exactly one row and with
\* the offset behind the whole batch.
C8_ShapedLinesStored ==
    [][\A r \in Runners :
          ( /\ pc[r] \in {"tx", "committed", "writing"}
            /\ pc'[r] = "idle"
            /\ last'[r].result \notin {"crash", "exc_storage", "exc_statefile"} ) =>
              /\ last'[r].result = "success"
              /\ statefile' = SFText(new_offset[r])
              /\ new_offset[r] = lines[r][Len(lines[r])].end
              /\ \A i \in 1..Len(lines[r]) :
                    RowsFor(r, lines[r][i]) = (IF SquidMatch(lines[r][i].text) THEN 1 ELSE 0)]_vars

\* ------------------------------------------------------------ C9
\* the row the write of the instance would leave in the table: a restore and
\* a delete write is_delete and deleted_at alone, and keep the stored policy
\* and priority
TargetRow(rows, inst) ==
    IF inst.id = 0 THEN Row(inst) ELSE Written(rows, inst)[inst.id]

\* the write would leave a live row on a (policy, priority) pair that another
\* live row holds
HeldByOther(rows, inst) ==
    /\ ~TargetRow(rows, inst).is_delete
    /\ \E i \in 1..Len(rows) :
          /\ i # inst.id
          /\ ~rows[i].is_delete
          /\ rows[i].policy = TargetRow(rows, inst).policy
          /\ rows[i].priority = TargetRow(rows, inst).priority

\* the step that ends the operation of writer w
OpEnds(w) == wpc[w] # "idle" /\ wpc'[w] = "idle"

\* C9: no two live rules of a policy have the same priority, in every state;
\* and an operation that would leave a live rule (create, update, restore) on
\* a (policy, priority) pair a live rule holds ends rejected, the table as it
\* was.
C9_LivePriorityUnique ==
    /\ [](\A i, j \in 1..Len(rules) :
            (i < j /\ ~rules[i].is_delete /\ ~rules[j].is_delete)
                => ~(rules[i].policy = rules[j].policy /\ rules[i].priority = rules[j].priority))
    /\ [][\A w \in Writers :
            ( /\ OpEnds(w)
              /\ wop[w].kind \in {"create", "update", "restore"}
              /\ HeldByOther(rules, wop[w]) ) =>
                /\ wres'[w] \in {"ValidationError", "IntegrityError"}
                /\ rules' = rules]_vars

\* a restore of a deleted rule onto a pair held by a live rule has been rejected
C9_Witness ==
    \E w \in Writers :
        /\ wpc[w] = "idle"
        /\ wop[w].kind = "restore"
        /\ wres[w] = "ValidationError"
        /\ rules[wop[w].id].is_delete
        /\ HeldByOther(rules, wop[w])

\* ------------------------------------------------------------ C10
\* both writers have finished a create of the same pair, the two operations
\* overlapped, and the pair was free when each of them started
RacedCreates(w1, w2) ==
    /\ w1 # w2
    /\ wpc[w1] = "idle" /\ wpc[w2] = "idle"
    /\ wop[w1].kind = "create" /\ wop[w2].kind = "create"
    /\ wop[w1].policy = wop[w2].policy
    /\ wop[w1].priority = wop[w2].priority
    /\ wop[w1].overlap /\ wop[w2].overlap
    /\ wop[w1].free /\ wop[w2].free

LiveRowsOf(p, pr) ==
    {i \in 1..Len(rules) : ~rules[i].is_delete /\ rules[i].policy = p /\ rules[i].priority = pr}

HasBlock == condition.t = "dict" /\ HasKey(condition, "time") /\ condition.d["time"].t # "null"
Block == condition.d["time"]

\* the value of a decimal digit
DigitVal(c) ==
    CASE c = "0" -> 0 [] c = "1" -> 1 [] c = "2" -> 2 [] c = "3" -> 3 [] c = "4" -> 4
      [] c = "5" -> 5 [] c = "6" -> 6 [] c = "7" -> 7 [] c = "8" -> 8 [] c = "9" -> 9
      [] c = ARABIC3 -> 3

\* a string HH:MM of two-digit hour 00..23 and two-digit minute 00..59
IsClock(v) ==
    /\ v.t = "str"
    /\ Len(v.s) = 5
    /\ v.s[3] = ":"
    /\ \A i \in {1, 2, 4, 5} : v.s[i] \in AsciiDigits \cup {ARABIC3}
    /\ 10 * DigitVal(v.s[1]) + DigitVal(v.s[2]) <= 23
    /\ 10 * DigitVal(v.s[4]) + DigitVal(v.s[5]) <= 59

\* minutes since midnight of a clock string
MinuteOfDay(v) ==
    60 * (10 * DigitVal(v.s[1]) + DigitVal(v.s[2])) + 10 * DigitVal(v.s[4]) + DigitVal(v.s[5])

\* C13: a document with a non-null time block is accepted only if its start
\* is strictly earlier than its end.
C13_StartBeforeEnd ==
    (raised = OK /\ HasBlock) =>
        /\ Block.t = "dict"
        /\ IsClock(Get(Block, "start")) /\ IsClock(Get(Block, "end"))
        /\ MinuteOfDay(Get(Block, "start")) < MinuteOfDay(Get(Block, "end"))

\* ------------------------------------------------------------ C14
\* days: a non-empty list of day codes; tz: a string that is not blank
DaysGiven(v) ==
    /\ v.t = "list"
    /\ Len(v.items) > 0
    /\ \A i \in 1..Len(v.items) : v.items[i].t = "str" /\ v.items[i].s \in DAYS
TzGiven(v) == v.t = "str" /\ \E i \in 1..Len(v.s) : v.s[i] # Blank

\* version 1 and a note that is not blank
HeaderGiven(c) ==
    /\ HasKey(c, "version") /\ c.d["version"].t = "int" /\ c.d["version"].n = 1
    /\ HasKey(c, "note") /\ c.d["note"].t = "str"
    /\ \E i \in 1..Len(c.d["note"].s) : c.d["note"].s[i] # Blank

\* a valid non-empty value of the match key k
ServiceGiven(v) ==
    /\ v.t = "dict"
    /\ HasKey(v, "protocol") /\ v.d["protocol"].t = "str" /\ v.d["protocol"].s \in {TCP, UDP}
    /\ HasKey(v, "port") /\ v.d["port"].t = "int"
    /\ v.d["port"].n >= 1 /\ v.d["port"].n <= 65535
CriterionGiven(k, v) ==
    /\ v.t = "list"
    /\ Len(v.items) > 0
    /\ k \in {"zones", "url_categories"} => \A i \in 1..Len(v.items) : v.items[i].t = "int"
    /\ k \in {"urls", "http_methods"} => \A i \in 1..Len(v.items) : v.items[i].t = "str"
    /\ k = "services" => \A i \in 1..Len(v.items) : ServiceGiven(v.items[i])

\* match is a record with exactly one key, one of the five, validly populated
OneCriterion(c) ==
    /\ HasKey(c, "match") /\ c.d["match"].t = "dict"
    /\ \E k \in {"zones", "url_categories", "urls", "http_methods", "services"} :
          /\ DOMAIN c.d["match"].d = {k}
          /\ CriterionGiven(k, c.d["match"].d[k])

MatchErrors == {E_MATCH, E_UNKNOWN, E_EMPTY, E_ZONES, E_URLCATS, E_URLS, E_METHODS,
                E_SERVICES, E_SERVICE_ITEM, E_PROTOCOL, E_PORT}

\* match is missing, is no record, or has no key with a non-empty value
NoCriterion(c) ==
    \/ ~HasKey(c, "match")
    \/ c.d["match"].t # "dict"
    \/ \A k \in DOMAIN c.d["match"].d :
          c.d["match"].d[k].t \in {"null", "list", "str"} /\ ~Truthy(c.d["match"].d[k])

\* exactly one of the five keys has a valid non-empty value; the other keys
\* may be there with an empty value
OnePopulated(c) ==
    /\ HasKey(c, "match") /\ c.d["match"].t = "dict"
    /\ DOMAIN c.d["match"].d \subseteq {"zones", "url_categories", "urls", "http_methods", "services"}
    /\ \E k \in DOMAIN c.d["match"].d :
          /\ CriterionGiven(k, c.d["match"].d[k])
          /\ \A j \in DOMAIN c.d["match"].d \ {k} : ~Truthy(c.d["match"].d[j])

\* C15 as stated: every document without a criterion fails with a
\* match-related error; every document with version 1, a note, exactly one
\* key populated and no time block is accepted.
C15_Original ==
    (raised # "none" /\ condition.t = "dict") =>
        /\ NoCriterion(condition) => raised \in MatchErrors
        /\ (HeaderGiven(condition) /\ OnePopulated(condition) /\ ~HasBlock) => raised = OK

\* C15 amended: the match-related error is raised when version and note pass
\* their checks, which come first; the document is accepted when the one
\* populated key is the only key of match.
C15_MatchRequired ==
    (raised # "none" /\ condition.t = "dict") =>
        /\ (HeaderGiven(condition) /\ NoCriterion(condition)) => raised \in MatchErrors
        /\ (HeaderGiven(condition) /\ OneCriterion(condition) /\ ~HasBlock) => raised = OK

\* a document with one criterion and no time block has been accepted
C15_Witness ==
    /\ raised = OK
    /\ ~HasBlock
    /\ OneCriterion(condition)
    /\ DOMAIN condition.d["match"].d = {"services"}

\* ------------------------------------------------------------ C20
\* C20: the validator returns or raises ValidationError, never another error.
C20_OnlyValidationError == raised # TYPE_ERROR

\* ------------------------------------------------------------ C16, C17, C18
\* the tag of a status token: its text before the first "/", all of it when
\* it has none
TagOf(st) ==
    CHOOSE t \in {SubSeq(st, 1, k) : k \in 0..Len(st)} :
        /\ \A i \in 1..Len(t) : t[i] # "/"
        /\ (Len(t) = Len(st) \/ st[Len(t) + 1] = "/")

Stored == event.state = "created"

\* C16: the verdict of a stored event is DENY exactly when the tag contains
\* DENIED and ALLOW otherwise; block_reason is the tag for DENY and empty for
\* ALLOW, so it is non-empty exactly for DENY.
C16_VerdictFromTag ==
    Stored =>
        /\ event.verdict = (IF Contains(TagOf(status), DENIED) THEN "DENY" ELSE "ALLOW")
        /\ event.verdict = "DENY" => event.block_reason = TagOf(status)
        /\ event.verdict = "ALLOW" => event.block_reason = <<>>
        /\ event.block_reason # <<>> <=> event.verdict = "DENY"

C16_Witness ==
    /\ Stored
    /\ event.verdict = "DENY"
    /\ event.block_reason = <<"T", "C", "P", "_">> \o DENIED
    /\ status # event.block_reason

CacheWords == <<HIT, MISS, BYPASS, EXPIRED, REVALIDATED>>
CacheNames == <<"HIT", "MISS", "BYPASS", "EXPIRED", "REVALIDATED">>
Occurring(tag) == {i \in 1..5 : Contains(tag, CacheWords[i])}

\* C17: the cache outcome is the first word of HIT, MISS, BYPASS, EXPIRED,
\* REVALIDATED that occurs in the tag, null when none does; a tag with none
\* of them and without DENIED gives ALLOW, no block reason and no cache
\* outcome, and the classification never fails a line whose URL parses.
C17_CacheOutcome ==
    event.state # "none" /\ ~PortRaises(urlparse(url_raw)) =>
        /\ Stored
        /\ \A i \in Occurring(TagOf(status)) :
              (\A j \in Occurring(TagOf(status)) : i <= j) => event.cache_status = CacheNames[i]
        /\ Occurring(TagOf(status)) = {} => event.cache_status = "NULL"
        /\ Occurring(TagOf(status)) = {} /\ ~Contains(TagOf(status), DENIED) =>
              event.verdict = "ALLOW" /\ event.block_reason = <<>> /\ event.cache_status = "NULL"

\* a tag with two cache words, the later of the list first in the tag
C17_Witness ==
    /\ Stored
    /\ TagOf(status) = MISS \o HIT
    /\ event.cache_status = "HIT"

\* the query text of a "?query" part
QueryOf(q) == IF q = <<>> THEN <<>> ELSE SubSeq(q, 2, Len(q))

\* the URL a line's token stands for, part by part
Decomposed(s, h, p, pa, q) ==
    LET scheme == IF s = <<>> THEN <<"http">> ELSE <<Lower(s[1])>>
    IN  [scheme |-> scheme,
         host |-> h,
         port |-> IF p # <<>> THEN RunValue(p[2])
                  ELSE IF scheme = <<"https">> THEN 443 ELSE 80,
         path |-> IF pa = <<>> THEN <<"/">> ELSE pa,
         query |-> QueryOf(q)]

\* the code of a status token: the number behind the first "/", null when
\* there is none or it is no number
CodeOf(st) ==
    LET rest == SubSeq(st, Len(TagOf(st)) + 2, Len(st))
    IN  IF IsNumber(rest) THEN Some(NumberOf(rest)) ELSE NONE

Example1 ==
    /\ status = <<"T", "C", "P", "_">> \o DENIED \o <<"/", "4", "0", "3">>
    /\ url_raw = <<"https", ":", "/", "/", "facebook.com", "/">>
Example2 ==
    /\ status = <<"T", "C", "P", "_">> \o HIT \o <<"/", "2", "0", "0">>
    /\ url_raw = <<"http", ":", "/", "/", "example.com", "/", "a", "?", "x=1">>

\* C18: every line of the ten-field shape is stored with its URL decomposed
\* into scheme, host, port, path and query with the stated defaults and its
\* status split into tag and numeric code; the two example lines give DENY,
\* TCP_DENIED, facebook.com, 443, https and ALLOW, HIT, x=1.
C18_UrlAndStatus ==
    event.state # "none" =>
        /\ Stored
        /\ \A s \in UrlSchemes, h \in UrlHosts, p \in UrlPorts, pa \in UrlPaths, q \in UrlQueries :
              url_raw = s \o h \o p \o pa \o q =>
                  /\ event.url = Decomposed(s, h, p, pa, q)
                  /\ event.dest_port = Decomposed(s, h, p, pa, q).port
        /\ event.http_status = CodeOf(status)
        /\ Example1 =>
              /\ event.verdict = "DENY"
              /\ event.block_reason = <<"T", "C", "P", "_">> \o DENIED
              /\ event.url.host = <<"facebook.com">>
              /\ event.url.port = 443
              /\ event.url.scheme = <<"https">>
        /\ Example2 =>
              /\ event.verdict = "ALLOW"
              /\ event.cache_status = "HIT"
              /\ event.url.query = <<"x=1">>

\* the parts of C18 that the code keeps: the status split, the two examples,
\* and the decomposition of a URL with a scheme and a port in 1..65535 or none
C18_Kept ==
    event.state # "none" /\ ~PortRaises(urlparse(url_raw)) =>
        /\ Stored
        /\ event.http_status = CodeOf(status)
        /\ \A s \in UrlSchemes \ {<<>>}, h \in UrlHosts, p \in UrlPorts \ {<<":", "0">>},
              pa \in UrlPaths, q \in UrlQueries :
              url_raw = s \o h \o p \o pa \o q => event.url = Decomposed(s, h, p, pa, q)
        /\ Example1 =>
              /\ event.verdict = "DENY"
              /\ event.block_reason = <<"T", "C", "P", "_">> \o DENIED
              /\ event.url.host = <<"facebook.com">>
              /\ event.url.port = 443
              /\ event.url.scheme = <<"https">>
        /\ Example2 =>
              /\ event.verdict = "ALLOW"
              /\ event.cache_status = "HIT"
              /\ event.url.query = <<"x=1">>

\* the CONNECT line of a tunnel: host:port without a scheme
C18_Connect ==
    ~(/\ Stored
      /\ url_raw = <<"facebook.com", ":", "443">>
      /\ event.url.host = url_raw
      /\ event.url.port = 80)

\* ------------------------------------------------------------ C19
\* C19: nothing in the pipeline keeps two runs apart: an idle runner can
\* start whatever the other runner is doing, and a runner that has worked
\* through its lines can commit them whatever rows the table holds; so two
\* runs can read the same offset and store the same lines.
C19_NoMutualExclusion ==
    \A r \in Runners :
        /\ pc[r] = "idle" => ENABLED Resume(r)
        /\ pc[r] = "tx" /\ idx[r] > Len(lines[r]) => ENABLED Commit(r)

\* one log line with two rows, both runs ended well, while a run was under
\* way when the other started
C19_Witness ==
    /\ \E i, j \in 1..Len(requests) : i < j /\ requests[i] = requests[j]
    /\ \A r \in Runners : last[r].result = "success"
    /\ \A r \in Runners : last[r].offset = 0

\* the later offset write put the state file back behind a stored line
C19_OffsetOverwritten ==
    /\ \A r \in Runners : last[r].result = "success" /\ pc[r] = "idle"
    /\ statefile.kind = "int"
    /\ \E i \in 1..Len(requests) : requests[i].end > statefile.val

\* ------------------------------------------------------------ C11, C12
Answered == vpc = "done" /\ vreq.kind \in ViewKinds

\* the form is well formed: policy, category and priority are integers
WellFormed ==
    /\ required_int(vreq.policy) = OK
    /\ required_int(vreq.url_category) = OK
    /\ IsNumber(PriorityText(vreq.priority))

\* the rule the form describes is live and another live rule of the table has
\* its policy and priority
Conflict ==
    /\ WellFormed
    /\ vreq.kind = "rule_edit" => Live(vtable[vreq.id].row)
    /\ \E i \in 1..Len(vtable) :
          /\ i # vreq.id
          /\ Live(vtable[i].row)
          /\ vtable[i].row.policy = NumberOf(vreq.policy.text)
          /\ vtable[i].row.priority = NumberOf(PriorityText(vreq.priority))

\* C11: rule_create and rule_edit report the duplicate-priority error exactly
\* when the write conflicts with a live rule of the same policy and priority:
\* a conflict is reported as that error, and no other failure is.
C11_DuplicateIffConflict ==
    Answered => (vmsg = <<DUPLICATE>> <=> Conflict)

\* what rule_edit keeps of C11: with a priority that is an integer, the
\* duplicate-priority error is reported exactly for a conflict
C11_EditNumeric ==
    Answered /\ vreq.kind = "rule_edit" /\ IsNumber(PriorityText(vreq.priority)) =>
        (vmsg = <<DUPLICATE>> <=> Conflict)

\* a priority that is no integer, reported as a duplicate priority
C11_ValueErrorAsDuplicate ==
    ~(/\ Answered
      /\ vexc = "ValueError"
      /\ vmsg = <<DUPLICATE>>
      /\ ~Conflict)

\* a conflict of rule_create that ends in the TypeError of the constructor
C11_ConflictUnhandled ==
    ~(/\ Answered
      /\ vreq.kind = "rule_create"
      /\ Conflict
      /\ vexc = "TypeError")

\* C12: every stored rule has a condition the validator accepts, and a write
\* that ends with an error (a rejected condition among them) leaves the table
\* as it was: nothing is stored and the row it was about is unchanged.
C12_FailClosed ==
    /\ [](\A i \in 1..Len(vtable) : validate_rule_condition(vtable[i].condition) = OK)
    /\ [][(vpc' = "done" /\ vexc' # "none") => vtable' = vtable]_vars
    /\ [][(vpc = "bound" /\ validate_rule_condition(vreq.doc) # OK)
            => (vpc' = "done" /\ vexc' # "none" /\ vtable' = vtable)]_vars

\* an update with a rejected condition has ended and the row still has the
\* condition it had
C12_Witness ==
    /\ vpc = "done"
    /\ vreq.kind = "save"
    /\ vreq.id > 0
    /\ validate_rule_condition(vreq.doc) \notin {OK, TYPE_ERROR}
    /\ vexc = "ValidationError"
    /\ vtable[vreq.id].condition = DocTimed
    /\ vtable[vreq.id].enabled = FALSE

\* ------------------------------------------------------------ C21, C22
\* the messages of the eight failure classes, in the order of the checks
ClassMessages ==
    <<{E_TYPE}, {E_VERSION}, {E_NOTE}, {E_MATCH}, {E_UNKNOWN}, {E_EMPTY},
      {E_ZONES, E_URLCATS, E_URLS, E_METHODS, E_SERVICES, E_SERVICE_ITEM, E_PROTOCOL, E_PORT},
      {E_TIME, E_DAYS_EMPTY, E_DAYS, E_HHMM, E_TZ}>>

\* check k, taken alone, fails on the document c
CheckFails(k, c) ==
    LET m == Get(c, "match")
    IN  CASE k = 1 -> c.t # "dict"
          [] k = 2 -> c.t = "dict" /\ Get(c, "version") \notin {JInt(1), JBool(TRUE)}
          [] k = 3 -> c.t = "dict" /\ ~(Get(c, "note").t = "str" /\ ~IsBlank(Get(c, "note").s))
          [] k = 4 -> c.t = "dict" /\ m.t # "dict"
          [] k = 5 -> c.t = "dict" /\ m.t = "dict" /\ ~(DOMAIN m.d \subseteq allowed_match_keys)
          [] k = 6 -> c.t = "dict" /\ m.t = "dict"
                      /\ \A key \in DOMAIN m.d \cap allowed_match_keys : ~Truthy(m.d[key])
          [] k = 7 -> c.t = "dict" /\ m.t = "dict" /\ MatchShapeError(m) # OK
          [] k = 8 -> /\ c.t = "dict" /\ HasKey(c, "time") /\ c.d["time"].t # "null"
                      /\ (c.d["time"].t # "dict" \/ TimeError(c.d["time"]) # OK)

FailingChecks(c) == {k \in 1..8 : CheckFails(k, c)}

\* C21: the validator reports the class of the first check, in the order
\* type, version, note, match presence, unknown keys, empty match, match
\* shapes, time block, that fails; the classes have pairwise different
\* messages; a document is accepted exactly when no check fails.
C21_FirstFailingCheck ==
    /\ \A j, k \in 1..8 : j # k => ClassMessages[j] \cap ClassMessages[k] = {}
    /\ raised # "none" =>
          /\ raised = OK <=> FailingChecks(condition) = {}
          /\ \A k \in FailingChecks(condition) :
                (\A j \in FailingChecks(condition) : k <= j) => raised \in ClassMessages[k]

\* what the code keeps of C21: whenever the validator ends with acceptance or
\* with a ValidationError, that is the outcome of the first failing check
C21_Kept ==
    /\ \A j, k \in 1..8 : j # k => ClassMessages[j] \cap ClassMessages[k] = {}
    /\ raised \notin {"none", TYPE_ERROR} =>
          /\ raised = OK <=> FailingChecks(condition) = {}
          /\ \A k \in FailingChecks(condition) :
                (\A j \in FailingChecks(condition) : k <= j) => raised \in ClassMessages[k]

\* the services of the document, when its match has the key
HasServices ==
    /\ condition.t = "dict"
    /\ Get(condition, "match").t = "dict"
    /\ HasKey(Get(condition, "match"), "services")
Services == condition.d["match"].d["services"]

\* a sequence of records {protocol: TCP|UDP, port: integer 1..65535}
ServicesValid(v) == v.t = "list" /\ \A i \in 1..Len(v.items) : ServiceGiven(v.items[i])

\* C22: a condition with match.services is accepted only if services is a
\* sequence whose items all have protocol TCP or UDP and an integer port in
\* 1..65535.
C22_ServicesValid ==
    raised = OK /\ HasServices => ServicesValid(Services)

\* what the code keeps of C22: apart from the port `true`, which Python takes
\* for the integer 1, an accepted services list is valid
C22_Kept ==
    raised = OK /\ HasServices =>
        /\ Services.t = "list"
        /\ \A i \in 1..Len(Services.items) :
              \/ ServiceGiven(Services.items[i])
              \/ ServiceGiven([Services.items[i] EXCEPT !.d["port"] = JInt(1)])
                 /\ Services.items[i].d["port"] = JBool(TRUE)

\* ------------------------------------------------------------ C23
\* C23: a run reads at most Limit lines, the first starting at its resume
\* offset and each starting where the one before ends; the offset it writes
\* is the end of the last line it read, and no row it stored lies behind it.
C23_OffsetAfterLastRead ==
    [][\A r \in Runners :
         (pc[r] = "writing" /\ statefile' # statefile) =>
            /\ Len(lines[r]) \in 1..Limit
            /\ lines[r][1].start = offset[r]
            /\ \A i \in 1..(Len(lines[r]) - 1) : lines[r][i].end = lines[r][i + 1].start
            /\ statefile' = SFText(lines[r][Len(lines[r])].end)
            /\ \A i \in (base[r] + 1)..Len(requests) :
                  /\ requests[i].start >= offset[r]
                  /\ requests[i].end <= statefile'.val
                  /\ \E j \in 1..Len(lines[r]) :
                        lines[r][j].start = requests[i].start /\ lines[r][j].end = requests[i].end]_vars

\* a run that stopped at the limit has written an offset inside the file it read
C23_Witness ==
    /\ last[Sole].result = "success"
    /\ pc[Sole] = "idle"
    /\ gen = 0
    /\ statefile = SFText(last[Sole].new_offset)
    /\ last[Sole].new_offset < last[Sole].size
    /\ last[Sole].new_offset > last[Sole].offset

\* ------------------------------------------------------------ C24
\* the key of the method row, and of the URL row, that the line at idx needs
LineKey(t, r) ==
    IF t = "http_method" THEN MethodOf(lines[r][idx[r]].text) ELSE UrlOf(lines[r][idx[r]].text)

\* the rows of table t that the run of r has inserted and not yet committed
TxOf(t, r) == Open(r, IF t = "http_method" THEN txMeth[r] ELSE txUrl[r])

\* the live rows with key k that the run of r sees in table t
LiveRows(t, r, k) ==
    Cardinality({i \in Alive(TableOf(t)) : TableOf(t)[i].key = k})
       + Cardinality({i \in 1..Len(TxOf(t, r)) : TxOf(t, r)[i].key = k})

\* C24: whatever ingestion runs, soft deletes and restores have happened, no
\* two live rows of http_method carry the same method and no two live rows of
\* url the same (scheme, host, port, path, query); and a line whose method and
\* URL have live rows is stored without a new row in either table.
C24_GetOrCreateIdempotent ==
    /\ [](\A t \in RefTables : \A r \in Runners :
             \A k \in KeysOf(t) \cup {TxOf(t, r)[i].key : i \in 1..Len(TxOf(t, r))} :
                LiveRows(t, r, k) <= 1)
    /\ [][\A r \in Runners :
            (pc[r] = "tx" /\ inserted'[r] = inserted[r] + 1) =>
               /\ Len(txMeth'[r]) + Len(http_method') =
                     Len(txMeth[r]) + Len(http_method)
                        + (IF LiveRows("http_method", r, LineKey("http_method", r)) > 0 THEN 0 ELSE 1)
               /\ Len(txUrl'[r]) + Len(url') =
                     Len(txUrl[r]) + Len(url)
                        + (IF LiveRows("url", r, LineKey("url", r)) > 0 THEN 0 ELSE 1)]_vars

\* two lines are stored: the method row was soft-deleted after the first and
\* a new one was created for the second, the URL row stayed and was used again
C24_Witness ==
    /\ Len(requests) = 2
    /\ Len(http_method) = 2
    /\ http_method[1].is_delete /\ ~http_method[2].is_delete
    /\ http_method[1].key = http_method[2].key
    /\ Len(url) = 1 /\ ~url[1].is_delete

\* ------------------------------------------------------------ C30
\* is_delete and deleted_at of a row say the same
Agree(row) == row.is_delete <=> row.deleted_at # NULL

\* C30: after any sequence of instance deletes, queryset deletes, restores
\* and update_or_create calls of the seed command, every row has is_delete
\* true exactly when deleted_at is set, and every row the default manager
\* returns has is_delete false.
C30_DeleteFlagsAgree ==
    \A t \in RefTables :
        /\ \A i \in 1..Len(TableOf(t)) : Agree(TableOf(t)[i])
        /\ \A i \in Alive(TableOf(t)) : ~TableOf(t)[i].is_delete

\* what the code keeps of C30: the default manager returns live rows only; a
\* row whose fields disagree is live with deleted_at set, and carries a key
\* of the seed command, whose update_or_create is the one operation that
\* writes is_delete without deleted_at; a delete leaves is_delete true with
\* deleted_at set; a restore leaves is_delete false with deleted_at null.
C30_Kept ==
    /\ [](\A t \in RefTables :
            /\ \A i \in Alive(TableOf(t)) : ~TableOf(t)[i].is_delete
            /\ \A i \in 1..Len(TableOf(t)) :
                  ~Agree(TableOf(t)[i]) =>
                      /\ ~TableOf(t)[i].is_delete
                      /\ TableOf(t)[i].key \in SeedKeys(t))
    /\ [][\A t \in RefTables : \A i \in 1..Len(TableOf(t)) :
            LET old == TableOf(t)[i]
                new == IF t = "http_method" THEN http_method'[i] ELSE url'[i]
            IN  /\ (~old.is_delete /\ new.is_delete) => new.deleted_at = NOW
                /\ (old.is_delete /\ ~new.is_delete) =>
                       new.deleted_at = NULL \/ new.key \in SeedKeys(t)]_vars

\* ------------------------------------------------------------ C25, C26
\* the content of the state file is the text of a position in a file
ValidOffset(sf) == sf.kind = "int" /\ sf.val >= 0

\* the step in which the run of r has loaded the offset and stat'ed the log
Resumes(r) == pc[r] = "idle" /\ pc'[r] = "resumed"

\* C25: a run that finds the state file absent, empty or holding anything
\* but a valid offset resumes at offset 0, and goes on to read the log.
C25_InvalidStateResumesAtZero ==
    [][\A r \in Runners :
         /\ (Resumes(r) /\ ~ValidOffset(statefile)) => offset'[r] = 0
         /\ (pc[r] = "resumed" /\ pc'[r] = "idle") => last'[r].result = "noop"]_vars

\* what the code keeps of C25: with no state file, an empty one or one whose
\* text is no integer the run resumes at 0, and a run that resumed at 0 or
\* above reads the log
C25_Kept ==
    [][\A r \in Runners :
         /\ (Resumes(r) /\ statefile.kind # "int") => offset'[r] = 0
         /\ (pc[r] = "resumed" /\ pc'[r] = "idle" /\ offset[r] >= 0) =>
                last'[r].result = "noop"]_vars

\* C26: whatever the state file holds and whatever the size of the log, the
\* position the run seeks to lies between 0 and the size of the log.
C26_SeekWithinFile ==
    \A r \in Runners : pc[r] = "resumed" => 0 <= offset[r] /\ offset[r] <= st_size[r]

\* what the code keeps of C26: the position is never behind the end of the
\* log, and it is negative only if the state file holds a negative integer
C26_Kept ==
    \A r \in Runners : pc[r] = "resumed" =>
        /\ offset[r] <= st_size[r]
        /\ offset[r] < 0 => statefile = SFText(offset[r])

\* ------------------------------------------------------------ C27
\* position pos of file f is the start of a line
LineStart(f, pos) == pos = 0 \/ (pos <= Len(f) /\ f[pos] = NL)

\* C27: a run that follows a rotation of the log (the run before it wrote
\* its offset for the file it had read, and that file was replaced since)
\* resumes at position 0, and no run resumes in the middle of a line of the
\* file it has stat'ed.
C27_RotationRestartsAtZero ==
    /\ [][\A r \in Runners :
            (Resumes(r) /\ last[r].result = "success" /\ last[r].read # gen) =>
                offset'[r] = 0]_vars
    /\ [](\A r \in Runners :
            (pc[r] = "resumed" /\ st_gen[r] = gen /\ st_size[r] = Len(logf)) =>
                LineStart(logf, offset[r]))

\* what the code keeps of C27: a run that finds the log shorter than the
\* offset in the state file resumes at position 0, and as long as the log is
\* not replaced every run resumes at the start of a line
C27_Kept ==
    /\ [][\A r \in Runners :
            (Resumes(r) /\ StoredOffset(statefile) > Len(logf)) => offset'[r] = 0]_vars
    /\ [](\A r \in Runners :
            (pc[r] = "resumed" /\ st_gen[r] = gen /\ st_size[r] = Len(logf) /\ gen = 0) =>
                LineStart(logf, offset[r]))

\* ------------------------------------------------------------ C28
\* position pos of file f is the end of a line that has its newline
LineEnded(f, pos) == pos \in 1..Len(f) /\ f[pos] = NL

\* C28: a run does not consume a record whose newline is not written yet:
\* every line it reads ends with a newline, and the offset in the state file
\* is 0 or the end of a newline-terminated line, so that no record is read
\* in two parts by two runs.
C28_UnterminatedLineNotConsumed ==
    /\ \A r \in Runners : pc[r] \in {"tx", "committed", "writing"} =>
           \A i \in 1..Len(lines[r]) : LineEnded(logf, lines[r][i].end)
    /\ statefile.kind = "int" => statefile.val = 0 \/ LineEnded(logf, statefile.val)

\* what the code keeps of C28: of the lines a run has read only the last
\* can lack its newline, and the offset written is the end of the last line
\* read, be it terminated or not
C28_Kept ==
    /\ [](\A r \in Runners : pc[r] \in {"tx", "committed", "writing"} =>
             \A i \in 1..(Len(lines[r]) - 1) : LineEnded(logf, lines[r][i].end))
    /\ [][\A r \in Runners :
            (pc[r] = "writing" /\ statefile' # statefile) =>
                statefile' = SFText(lines[r][Len(lines[r])].end)]_vars

\* ------------------------------------------------------------ C29
\* the lines of the log that end at or before position pos
LinesBefore(pos) ==
    LET all == ReadLines(logf, 0, Len(logf))
    IN  {i \in 1..Len(all) : all[i].end <= pos}
LogLine(i) == ReadLines(logf, 0, Len(logf))[i]

\* a line of the ten whitespace-separated fields
TenFields(text) == \E l \in {OkLine, PoisonLine} : text = Strip(l)

\* C29: between runs, with no crash, failure, rotation or second run, every
\* well-formed line before the offset in the state file has exactly one row
\* in requests, and requests has no other rows.
C29_ExactlyOnce ==
    pc[Sole] = "idle" =>
        LET before == {i \in LinesBefore(StoredOffset(statefile)) : TenFields(LogLine(i).text)}
        IN  /\ Len(requests) = Cardinality(before)
            /\ \A i \in before :
                  Cardinality({j \in 1..Len(requests) :
                      requests[j].start = LogLine(i).start /\ requests[j].end = LogLine(i).end}) = 1

\* two runs have passed a well-formed line and a line that is not: one row
C29_Witness ==
    /\ pc[Sole] = "idle"
    /\ statefile = SFText(Len(logf))
    /\ Len(requests) = 1
    /\ Cardinality(LinesBefore(Len(logf))) = 2
    /\ last[Sole].offset > 0

====
